---- MODULE Spec2Model ----
(***************************************************************************)
(* Model of the SQLite-backed poll cache, src/src/cache_manager.py         *)
(* (class PollDataCache).  The backing file, its poll_cache table and the  *)
(* instance's hit/miss counters are the state; one action per public       *)
(* method, each covering the method's whole retry loop.                    *)
(***************************************************************************)
EXTENDS Integers, Sequences, FiniteSets, TLC

VARIABLES
    dbfile,     \* what the file at db_path holds: "ok","notable","garbage","malformed","missing"
    perm,       \* access the process has to the file: "rw" or "none"
    rows,       \* the rows of table poll_cache (a set of records)
    now,        \* wall clock, in ticks of 1/TicksPerSec second
    cache_hits, \* PollDataCache.cache_hits
    cache_misses, \* PollDataCache.cache_misses
    nops,       \* number of get and set calls made so far
    last,       \* the most recent call: its arguments and what it returned
    written,    \* what the caller last stored under each (url, params), while the row exists
    conc        \* calls of get and set in progress on connections of their own

vars == <<dbfile, perm, rows, now, cache_hits, cache_misses, nops, last, written, conc>>

----------------------------------------------------------------------------
(* Bounds of the model *)

MaxOps == 3
MaxNow == 3
TicksPerSec == 2
DefaultTtl == 2

(* Program constants *)

max_retries == 3
MAX_RETRIES == 3
RETRY_DELAY == 2

----------------------------------------------------------------------------
(* Time.  CURRENT_TIMESTAMP and strftime('%Y-%m-%d %H:%M:%S') both have a   *)
(* resolution of one second: a timestamp is the clock truncated to seconds. *)

CurrentTimestamp(t) == t \div TicksPerSec

(* datetime.utcnow() + timedelta(seconds=ttl), formatted to whole seconds *)
ExpiresAtStr(t, ttl) == (t + ttl * TicksPerSec) \div TicksPerSec

----------------------------------------------------------------------------
(* Inputs *)

Urls == {"A", "B"}

(* Python's None passed as url *)
NoneUrl == "<None>"
SweepUrlArgs == Urls \cup {"", NoneUrl}

(* `not url` *)
Falsy(url) == url \in {"", NoneUrl}

(* A dict is a sequence of <<name, value>> pairs in insertion order.        *)
(* ParamNames lists the names used, in the order Python sorts them.         *)
ParamNames == <<"n", "p", "q">>

EmptyDict == << >>
DictNP == << <<"n", "5">>, <<"p", "x">> >>
DictPN == << <<"p", "x">>, <<"n", "5">> >>

(* Every dict of at most MaxParams entries over these names and two values *)
MaxParams == 3
ParamPairs == {<<ParamNames[i], v>> : i \in 1..Len(ParamNames), v \in {"5", "x"}}
AllDicts ==
    {d \in UNION {[1..n -> ParamPairs] : n \in 0..MaxParams} :
        \A i, j \in 1..Len(d) : i # j => d[i][1] # d[j][1]}

(* The params argument: a dict, or None *)
Given(d) == [is_none |-> FALSE, dict |-> d]
NoneParams == [is_none |-> TRUE, dict |-> << >>]

(* The ttl argument: a number of seconds, or None *)
Seconds(n) == <<"int", n>>
NoneTtl == <<"None">>
TtlArgs == {Seconds(1), NoneTtl}

(* A DataFrame: column labels, index labels and one sequence of cells per   *)
(* row.  A cell is <<dtype, text>>; pandas numbers a default index 0..n-1.  *)
DF(cols, idx, data) == [columns |-> cols, index |-> idx, data |-> data]

DfCon25   == DF(<<"Con">>, <<0>>, << << <<"int", "25">> >> >>)
DfIdx1    == DF(<<"Con">>, <<1>>, << << <<"int", "25">> >> >>)
DfDate    == DF(<<"Date">>, <<0>>, << << <<"datetime", "2025-08-30T00:00:00.000">> >> >>)
DfEmpty   == DF(<< >>, << >>, << >>)

(* The data argument: a DataFrame, or None *)
Frame(df) == <<"df", df>>
None == <<"None">>

----------------------------------------------------------------------------
(* Key derivation *)

RECURSIVE RankIn(_, _, _)
RankIn(name, names, i) ==
    IF i > Len(names) THEN 0
    ELSE IF names[i] = name THEN i ELSE RankIn(name, names, i + 1)

NameRank(name) == RankIn(name, ParamNames, 1)

RECURSIVE InsertSorted(_, _)
InsertSorted(pair, s) ==
    IF s = << >> THEN <<pair>>
    ELSE IF NameRank(pair[1]) <= NameRank(Head(s)[1])
         THEN <<pair>> \o s
         ELSE <<Head(s)>> \o InsertSorted(pair, Tail(s))

(* json.dumps without sort_keys=True: entries in insertion order *)
SortKeys_Unsorted(d) == d

RECURSIVE SortKeys(_)
SortKeys(d) ==
    IF d = << >> THEN << >> ELSE InsertSorted(Head(d), SortKeys(Tail(d)))

RECURSIVE DumpItems(_)
DumpItems(s) ==
    IF s = << >> THEN << >>
    ELSE <<"\"", Head(s)[1], "\"", ": ", Head(s)[2]>>
         \o (IF Tail(s) = << >> THEN << >> ELSE <<", ">>)
         \o DumpItems(Tail(s))

(* json.dumps(params, sort_keys=True), as a sequence of tokens *)
JsonDumpsOrdered(d) == <<"{">> \o DumpItems(d) \o <<"}">>

JsonDumpsSorted(d) == JsonDumpsOrdered(SortKeys(d))

(* the key derived from the url alone *)
_generate_cache_key_UrlOnly(url, params) == <<url, ":">>

(* sha256(...).hexdigest() is taken to be collision free: the digest is     *)
(* identified with the text that is hashed, f"{url}:{param_str}".           *)
_generate_cache_key(url, params) == <<url, ":">> \o JsonDumpsSorted(params)

(* `if params is None: params = {}` *)
DefaultParams(p) == IF p.is_none THEN EmptyDict ELSE p.dict

----------------------------------------------------------------------------
(* Payload encoding *)

(* data.empty *)
IsEmptyFrame(df) == Len(df.index) = 0 \/ Len(df.columns) = 0

(* one cell of DataFrame.to_json(date_format='iso'): timestamps become text *)
CellToJson(c) ==
    IF c[1] = "int" THEN <<"number", c[2]>>
    ELSE <<"string", c[2]>>

(* data.to_json(orient='records', date_format='iso'): a list with one       *)
(* {column: value} object per row; the index is not written.                *)
to_json(df) ==
    [i \in 1..Len(df.data) |->
        [j \in 1..Len(df.columns) |-> <<df.columns[j], CellToJson(df.data[i][j])>>]]

CellFromJson(v) ==
    IF v[1] = "number" THEN <<"int", v[2]>> ELSE <<"object", v[2]>>

(* pd.DataFrame(json.loads(data_json)): columns from the objects' names, a  *)
(* fresh RangeIndex 0..n-1, cells typed by their JSON type.                 *)
from_json(js) ==
    DF(IF Len(js) = 0 THEN << >> ELSE [j \in 1..Len(js[1]) |-> js[1][j][1]],
       [i \in 1..Len(js) |-> i - 1],
       [i \in 1..Len(js) |-> [j \in 1..Len(js[i]) |-> CellFromJson(js[i][j][2])]])

(* A data_json text that to_json never writes, named by its characters *)
RawText(chars) == << << <<chars, <<"text", "">> >> >> >>
EmptyText == RawText("")
InvalidJsonText == RawText("invalid_json{")
NotAListText == RawText("{\"Con\": 25}")
RawTexts == {EmptyText, InvalidJsonText, NotAListText}

(* json.loads(data_json) followed by isinstance(data_dict, list): "error"   *)
(* for a text that is not JSON (JSONDecodeError), "other" for a JSON value  *)
(* that is not a list, "list" for what to_json writes.                      *)
json_loads(js) ==
    IF js \in {EmptyText, InvalidJsonText} THEN "error"
    ELSE IF js = NotAListText THEN "other"
    ELSE "list"

----------------------------------------------------------------------------
(* Exceptions.  cls is the Python class, msg the text the handlers test.    *)

Exc(cls, msg) == [cls |-> cls, msg |-> msg]
NoExc == Exc("", "")

Locked     == Exc("OperationalError", "database is locked")
CantOpen   == Exc("OperationalError", "unable to open database file")
NoSuchTable == Exc("OperationalError", "no such table: poll_cache")
NotADb     == Exc("DatabaseError", "file is not a database")
Malformed  == Exc("DatabaseError", "database disk image is malformed")
NoInitDb   == Exc("AttributeError", "'PollDataCache' object has no attribute '_init_db'")
Unexpected == Exc("Exception", "unexpected")

(* sqlite3.OperationalError is a subclass of sqlite3.DatabaseError, which   *)
(* is a subclass of sqlite3.Error.                                          *)
IsOperationalError(e) == e.cls = "OperationalError"
IsDatabaseError(e) == e.cls \in {"OperationalError", "DatabaseError"}

(* What the environment does to one attempt: nothing, or a lock held by     *)
(* another connection at one of the statements, or some other exception.    *)
Faults == {"none", "locked_connect", "locked_schema", "locked_stmt", "locked_update", "unexpected"}

(* The places where a call can find the database locked: sqlite3.connect,   *)
(* the schema check, the statement on poll_cache                            *)
LockFaults == {"locked_connect", "locked_schema", "locked_stmt"}

----------------------------------------------------------------------------
(* The backing store: st = [file, rows].                                    *)

Store(f, rs) == [file |-> f, rows |-> rs]

(* Results of the public methods *)
Bool(b) == <<"bool", b>>
Count(n) == <<"int", n>>
Raised(e) == <<"raise", e.cls>>

(* sqlite3.connect on a path that does not exist creates an empty file *)
ConnectCreates(st) == IF st.file = "missing" THEN Store("notable", {}) ELSE st

(* self._init_db(): PollDataCache defines _init_database only, so the call  *)
(* raises AttributeError and leaves the file as it is.                      *)
_init_db(st) == [exc |-> NoInitDb, st |-> st]

(* _repair_database: back the file up (best effort), remove it, call        *)
(* self._init_db(); every exception is caught and turned into False.        *)
_repair_database(st) ==
    LET removed == Store("missing", {})
        init == _init_db(removed)
    IN  IF init.exc = NoExc
        THEN [ok |-> TRUE, st |-> init.st]
        ELSE [ok |-> FALSE, st |-> init.st]

(* The clause `except sqlite3.DatabaseError` of _init_database ending in    *)
(* `raise` whatever the message                                             *)
InitOnCorrupt_Raise(st) == [exc |-> NotADb, st |-> st, moved |-> FALSE]

(* The clause `except sqlite3.DatabaseError` of _init_database for a file   *)
(* that is not a database: os.rename(db_path, db_path.corrupt_<time>), then *)
(* connect, which creates a new file, and the CREATE statements again.      *)
(* moved: the old file is kept under the backup name.                       *)
InitOnCorrupt(st) == [exc |-> NoExc, st |-> Store("ok", {}), moved |-> TRUE]

(* DROP TABLE before CREATE TABLE: every construction starts empty *)
_init_database_Recreate(st, pm) ==
    IF pm = "none" THEN [exc |-> CantOpen, st |-> st, moved |-> FALSE]
    ELSE [exc |-> NoExc, st |-> Store("ok", {}), moved |-> FALSE]

(* _init_database, run by the constructor *)
_init_database(st, pm) ==
    IF pm = "none" THEN [exc |-> CantOpen, st |-> st, moved |-> FALSE]
    ELSE IF st.file = "garbage" THEN InitOnCorrupt(st)
    ELSE IF st.file \in {"missing", "notable"}
    THEN [exc |-> NoExc, st |-> Store("ok", {}), moved |-> FALSE]
    ELSE [exc |-> NoExc, st |-> st, moved |-> FALSE]

----------------------------------------------------------------------------
(* PollDataCache.get *)

Returned(res, st, hit, miss) ==
    [exc |-> NoExc, res |-> res, st |-> st, hit |-> hit, miss |-> miss]
Thrown(e, st) ==
    [exc |-> e, res |-> None, st |-> st, hit |-> 0, miss |-> 0]

(* UPDATE poll_cache SET access_count = 1, last_accessed = ... *)
Touch_Reset(rs, key, t) ==
    {IF r.cache_key = key
     THEN [r EXCEPT !.access_count = 1, !.last_accessed = CurrentTimestamp(t)]
     ELSE r : r \in rs}

(* UPDATE poll_cache SET access_count = access_count + 1,                   *)
(*        last_accessed = CURRENT_TIMESTAMP WHERE cache_key = ?             *)
Touch(rs, key, t) ==
    {IF r.cache_key = key
     THEN [r EXCEPT !.access_count = @ + 1, !.last_accessed = CurrentTimestamp(t)]
     ELSE r : r \in rs}

(* WHERE cache_key = ? AND expires_at >= CURRENT_TIMESTAMP *)
SelectLive_Inclusive(rs, key, t) ==
    {r \in rs : r.cache_key = key /\ r.expires_at >= CurrentTimestamp(t)}

(* SELECT ... WHERE cache_key = ? AND expires_at > CURRENT_TIMESTAMP *)
SelectLive(rs, key, t) ==
    {r \in rs : r.cache_key = key /\ r.expires_at > CurrentTimestamp(t)}

(* The access update without its own try/except: a lock on it is raised    *)
(* into get's handlers                                                      *)
UpdateAccess_Propagate(rs, key, t, f) ==
    IF f = "locked_update" THEN [exc |-> Locked, rows |-> rs]
    ELSE [exc |-> NoExc, rows |-> Touch(rs, key, t)]

(* The access update of a hit, in its own `try ... except sqlite3.Error`:   *)
(* a failure is logged and the rows stay as they were.                      *)
UpdateAccess(rs, key, t, f) ==
    IF f = "locked_update" THEN [exc |-> NoExc, rows |-> rs]
    ELSE [exc |-> NoExc, rows |-> Touch(rs, key, t)]

(* A miss that deletes the key's row, as the empty-payload branch does *)
MissStore_Sweep(st, key) == Store(st.file, {r \in st.rows : r.cache_key # key})

(* The miss branch: `else: conn.close()`, the table is left alone *)
MissStore(st, key) == st

(* DELETE FROM poll_cache WHERE cache_key = ? on a new connection, inside   *)
(* `try ... except sqlite3.Error: pass`: under a lock the row stays.        *)
DeleteBestEffort(rs, key, f) ==
    IF f = "locked_delete" THEN rs ELSE {r \in rs : r.cache_key # key}

(* What get does with the data_json of the row it selected, rs being the    *)
(* table after the access update: the result and the table it leaves.       *)
DecodeRow(rs, key, data_json, f) ==
    IF json_loads(data_json) = "error"
    THEN [res |-> None, rows |-> DeleteBestEffort(rs, key, f), hit |-> 0]
    ELSE IF json_loads(data_json) = "other"
    THEN [res |-> None, rows |-> rs, hit |-> 0]
    ELSE IF IsEmptyFrame(from_json(data_json))
    THEN [res |-> None, rows |-> rs, hit |-> 0]
    ELSE [res |-> Frame(from_json(data_json)), rows |-> rs, hit |-> 1]

(* The body of one pass of get's retry loop, up to its return or raise *)
GetTry(st, pm, key, t, f) ==
    IF st.file = "missing" THEN Returned(None, st, 0, 0)
    ELSE IF pm = "none" THEN Returned(None, st, 0, 0)
    ELSE IF f = "locked_connect" THEN Thrown(Locked, st)
    ELSE IF f = "unexpected" THEN Thrown(Unexpected, st)
    \* schema validation, inside `except sqlite3.Error: return None`
    ELSE IF st.file = "garbage" THEN Returned(None, st, 0, 0)
    ELSE IF f = "locked_schema" THEN Returned(None, st, 0, 0)
    ELSE IF st.file = "notable" THEN Thrown(_init_db(st).exc, _init_db(st).st)
    \* the lookup
    ELSE IF f = "locked_stmt" THEN Thrown(Locked, st)
    ELSE IF st.file = "malformed" THEN Thrown(Malformed, st)
    ELSE LET result == SelectLive(st.rows, key, t) IN
         IF result # {}
         THEN LET row == CHOOSE r \in result : TRUE
                  upd == UpdateAccess(st.rows, key, t, f)
                  dec == DecodeRow(upd.rows, key, row.data_json, f)
              IN  \* `if not data_json or data_json.strip() == ''`
                  IF row.data_json = EmptyText
                  THEN Returned(None, Store(st.file, {r \in st.rows : r.cache_key # key}), 0, 0)
                  ELSE IF upd.exc # NoExc THEN Thrown(upd.exc, st)
                  ELSE Returned(dec.res, Store(st.file, dec.rows), dec.hit, 0)
         ELSE Returned(None, MissStore(st, key), 0, 1)

(* time.sleep(retry_delay * 2 ** (attempt + 1)): the wait doubles *)
Backoff_Doubling(attempt) == 2 ^ (attempt + 1)

(* time.sleep(retry_delay * (attempt + 1)) before the next pass, in units   *)
(* of retry_delay                                                           *)
Backoff(attempt) == attempt + 1

(* get without its last clause `except Exception`: what is neither a       *)
(* lock nor a DatabaseError leaves get as an exception                      *)
GetHandle_Propagate(e, attempt, st) ==
    IF IsOperationalError(e) /\ e.msg = "database is locked" /\ attempt < max_retries - 1
    THEN [retry |-> TRUE, res |-> None, st |-> st, sleep |-> attempt + 1, repairs |-> 0]
    ELSE IF IsDatabaseError(e)
    THEN [retry |-> FALSE, res |-> None, st |-> st, sleep |-> 0, repairs |-> 0]
    ELSE [retry |-> FALSE, res |-> Raised(e), st |-> st, sleep |-> 0, repairs |-> 0]

(* get's except clauses: what happens to exception e raised in pass number  *)
(* attempt (counted from 0).  sleep is in units of retry_delay.             *)
GetHandle(e, attempt, st) ==
    IF IsOperationalError(e)
    THEN IF e.msg = "database is locked" /\ attempt < max_retries - 1
         THEN [retry |-> TRUE, res |-> None, st |-> st, sleep |-> Backoff(attempt),
               repairs |-> 0]
         ELSE [retry |-> FALSE, res |-> None, st |-> st, sleep |-> 0, repairs |-> 0]
    ELSE IF IsDatabaseError(e)
    THEN IF e.msg = "database disk image is malformed"
         THEN [retry |-> FALSE, res |-> None, st |-> _repair_database(st).st,
               sleep |-> 0, repairs |-> 1]
         ELSE [retry |-> FALSE, res |-> None, st |-> st, sleep |-> 0, repairs |-> 0]
    ELSE [retry |-> FALSE, res |-> None, st |-> st, sleep |-> 0, repairs |-> 0]

Outcome(res, st, t, attempts, slept, repairs, hit, miss) ==
    [res |-> res, st |-> st, t |-> t, attempts |-> attempts, slept |-> slept,
     repairs |-> repairs, hit |-> hit, miss |-> miss]

(* The retry loop of get from pass `attempt` on: the set of ways it can end *)
RECURSIVE GetLoop(_, _, _, _, _, _, _)
GetLoop(st, pm, key, t, attempt, slept, F) ==
    IF attempt >= max_retries
    THEN {Outcome(None, st, t, attempt, slept, 0, 0, 0)}
    ELSE UNION {
        LET r == GetTry(st, pm, key, t, f) IN
        IF r.exc = NoExc
        THEN {Outcome(r.res, r.st, t, attempt + 1, slept, 0, r.hit, r.miss)}
        ELSE LET h == GetHandle(r.exc, attempt, r.st) IN
             IF h.retry
             THEN GetLoop(h.st, pm, key, t, attempt + 1, slept + h.sleep, F)
             ELSE {Outcome(h.res, h.st, t, attempt + 1, slept, h.repairs, 0, 0)}
        : f \in F}

get(st, pm, url, params, t, F) ==
    IF Falsy(url)
    THEN {Outcome(None, st, t, 0, 0, 0, 0, 0)}
    ELSE GetLoop(st, pm, _generate_cache_key(url, DefaultParams(params)), t, 0, 0, F)

----------------------------------------------------------------------------
(* PollDataCache.set *)

NewRow(key, data_json, url, params_json, expires_at, t) ==
    [cache_key |-> key, data_json |-> data_json, url |-> url,
     params_json |-> params_json, created_at |-> CurrentTimestamp(t),
     expires_at |-> expires_at, access_count |-> 0,
     last_accessed |-> CurrentTimestamp(t)]

(* INSERT INTO a table whose cache_key is not a key: the old row stays *)
InsertOrReplace_Append(rs, row) == rs \cup {row}

(* INSERT OR REPLACE INTO poll_cache: cache_key is the PRIMARY KEY, so any  *)
(* row with the same key is deleted before the new row is inserted.         *)
InsertOrReplace(rs, row) ==
    {r \in rs : r.cache_key # row.cache_key} \cup {row}

(* set deleting the key's row in a transaction of its own before the      *)
(* INSERT: a lock on the INSERT leaves the key without a row                *)
Uncommitted_DeleteFirst(st, key) ==
    Store(st.file, {r \in st.rows : r.cache_key # key})

(* The table when the INSERT OR REPLACE raises: the statement and           *)
(* conn.commit() are one transaction, and the connection is dropped without *)
(* a commit, so nothing of it is written.                                   *)
Uncommitted(st, key) == st

(* The body of one pass of set's retry loop *)
SetTry(st, pm, url, df, params, key, t, ttl, f) ==
    LET data_json == to_json(df)
        params_json == JsonDumpsSorted(params)
        expires_at == ExpiresAtStr(t, ttl)
    IN
    IF f = "locked_connect" THEN Thrown(Locked, st)
    ELSE IF f = "unexpected" THEN Thrown(Unexpected, st)
    ELSE IF pm = "none" THEN Thrown(CantOpen, st)
    ELSE LET st1 == ConnectCreates(st) IN
         IF st1.file = "garbage" THEN Thrown(NotADb, st1)
         ELSE IF f = "locked_schema" THEN Thrown(Locked, st1)
         ELSE IF st1.file = "notable" THEN Thrown(_init_db(st1).exc, _init_db(st1).st)
         ELSE IF f = "locked_stmt" THEN Thrown(Locked, Uncommitted(st1, key))
         ELSE IF st1.file = "malformed" THEN Thrown(Malformed, st1)
         ELSE Returned(Bool(TRUE),
                       Store(st1.file,
                             InsertOrReplace(st1.rows,
                                 NewRow(key, data_json, url, params_json, expires_at, t))),
                       0, 0)

Retry(st, sleep, repairs) ==
    [retry |-> TRUE, res |-> Bool(FALSE), st |-> st, sleep |-> sleep, repairs |-> repairs]
GiveUp(res, st, repairs) ==
    [retry |-> FALSE, res |-> res, st |-> st, sleep |-> 0, repairs |-> repairs]

(* set with the `else: raise` of _init_database in its DatabaseError        *)
(* clause: a file that is not a database makes set raise                    *)
SetHandle_Reraise(e, attempt, st) ==
    IF IsDatabaseError(e) /\ e.msg = "file is not a database"
    THEN GiveUp(Raised(e), st, 0)
    ELSE IF attempt < max_retries - 1
    THEN Retry(st, 1, 0)
    ELSE GiveUp(Bool(FALSE), st, 0)

(* set's except clauses: the two inner ones (sqlite3.OperationalError,      *)
(* sqlite3.DatabaseError), then the outer `except Exception`.               *)
SetHandle(e, attempt, st) ==
    IF IsOperationalError(e)
    THEN IF e.msg = "database is locked" /\ attempt < max_retries - 1
         THEN Retry(st, Backoff(attempt), 0)
         ELSE IF e.msg = "file is not a database"
         THEN IF attempt < max_retries - 1
              THEN Retry(_repair_database(st).st, 0, 1)
              ELSE GiveUp(Bool(FALSE), _repair_database(st).st, 1)
         ELSE GiveUp(Bool(FALSE), st, 0)
    ELSE IF IsDatabaseError(e)
    THEN IF e.msg = "database disk image is malformed"
         THEN IF attempt < max_retries - 1
              THEN Retry(_repair_database(st).st, 0, 1)
              ELSE GiveUp(Bool(FALSE), _repair_database(st).st, 1)
         ELSE GiveUp(Bool(FALSE), st, 0)
    ELSE IF attempt < max_retries - 1
         THEN Retry(st, 1, 0)
         ELSE GiveUp(Bool(FALSE), st, 0)

RECURSIVE SetLoop(_, _, _, _, _, _, _, _, _, _, _, _)
SetLoop(st, pm, url, df, params, key, t, ttl, attempt, slept, repairs, F) ==
    IF attempt >= max_retries
    THEN {Outcome(Bool(FALSE), st, t, attempt, slept, repairs, 0, 0)}
    ELSE UNION {
        LET r == SetTry(st, pm, url, df, params, key, t, ttl, f) IN
        IF r.exc = NoExc
        THEN {Outcome(r.res, r.st, t, attempt + 1, slept, repairs, 0, 0)}
        ELSE LET h == SetHandle(r.exc, attempt, r.st) IN
             IF h.retry
             THEN SetLoop(h.st, pm, url, df, params, key, t, ttl, attempt + 1,
                          slept + h.sleep, repairs + h.repairs, F)
             ELSE {Outcome(h.res, h.st, t, attempt + 1, slept, repairs + h.repairs, 0, 0)}
        : f \in F \ {"locked_update"}}

(* `if ttl is None: ttl = self.default_ttl` *)
DefaultedTtl(ttl) == IF ttl = NoneTtl THEN DefaultTtl ELSE ttl[2]

set(st, pm, url, data, params, ttl, t, F) ==
    IF Falsy(url) THEN {Outcome(Bool(FALSE), st, t, 0, 0, 0, 0, 0)}
    ELSE IF data = None THEN {Outcome(Bool(FALSE), st, t, 0, 0, 0, 0, 0)}
    ELSE IF IsEmptyFrame(data[2]) THEN {Outcome(Bool(FALSE), st, t, 0, 0, 0, 0, 0)}
    ELSE SetLoop(st, pm, url, data[2], DefaultParams(params),
                 _generate_cache_key(url, DefaultParams(params)), t,
                 DefaultedTtl(ttl), 0, 0, 0, F)

----------------------------------------------------------------------------
(* PollDataCache.invalidate and PollDataCache.cleanup_expired *)

(* What a statement on poll_cache raises for a file that is not a usable    *)
(* store, NoExc when the statement can run.                                 *)
StatementError(st, pm, f) ==
    IF pm = "none" THEN CantOpen
    ELSE IF f = "unexpected" THEN Unexpected
    ELSE IF st.file = "garbage" THEN NotADb
    ELSE IF f # "none" THEN Locked
    ELSE IF st.file \in {"missing", "notable"} THEN NoSuchTable
    ELSE IF st.file = "malformed" THEN Malformed
    ELSE NoExc

(* WHERE url = ? AND params_json = '{}' *)
RowsOfUrl_NoParams(rs, url) ==
    {r \in rs : r.url = url /\ r.params_json = JsonDumpsSorted(EmptyDict)}

(* DELETE FROM poll_cache WHERE url = ? *)
RowsOfUrl(rs, url) == {r \in rs : r.url = url}

(* `if url and params:` in place of `if url and params is not None:` *)
InvalidateSelects_Truthy(rs, url, params) ==
    IF ~Falsy(url) /\ ~params.is_none /\ params.dict # EmptyDict
    THEN {r \in rs : r.cache_key = _generate_cache_key(url, params.dict)}
    ELSE IF ~Falsy(url)
    THEN RowsOfUrl(rs, url)
    ELSE rs

(* The rows the DELETE of invalidate selects: `if url and params is not     *)
(* None` the one with the derived key, `elif url` those of the url, else    *)
(* all of them.                                                             *)
InvalidateSelects(rs, url, params) ==
    IF ~Falsy(url) /\ ~params.is_none
    THEN {r \in rs : r.cache_key = _generate_cache_key(url, params.dict)}
    ELSE IF ~Falsy(url)
    THEN RowsOfUrl(rs, url)
    ELSE rs

InvalidateTry(st, pm, url, params, f) ==
    LET e == StatementError(st, pm, f)
        st1 == IF pm = "none" THEN st ELSE ConnectCreates(st)
        gone == InvalidateSelects(st1.rows, url, params)
    IN  IF e # NoExc THEN Thrown(e, st1)
        ELSE Returned(Count(Cardinality(gone)), Store(st1.file, st1.rows \ gone), 0, 0)

(* `except Exception as e: ... return 0` *)
SweepHandle(e) == Count(0)

invalidate(st, pm, url, params, t, F) ==
    {LET r == InvalidateTry(st, pm, url, params, f) IN
     Outcome(IF r.exc = NoExc THEN r.res ELSE SweepHandle(r.exc), r.st, t, 1, 0, 0, 0, 0)
     : f \in F \cap {"none", "locked_stmt", "unexpected"}}

(* DELETE FROM poll_cache WHERE expires_at < CURRENT_TIMESTAMP *)
CleanupSelects_Strict(rs, t) == {r \in rs : r.expires_at < CurrentTimestamp(t)}

(* DELETE FROM poll_cache WHERE expires_at <= CURRENT_TIMESTAMP *)
CleanupSelects(rs, t) == {r \in rs : r.expires_at <= CurrentTimestamp(t)}

CleanupTry(st, pm, t, f) ==
    LET e == StatementError(st, pm, f)
        st1 == IF pm = "none" THEN st ELSE ConnectCreates(st)
        gone == CleanupSelects(st1.rows, t)
    IN  IF e # NoExc THEN Thrown(e, st1)
        ELSE Returned(Count(Cardinality(gone)), Store(st1.file, st1.rows \ gone), 0, 0)

cleanup_expired(st, pm, t, F) ==
    {LET r == CleanupTry(st, pm, t, f) IN
     Outcome(IF r.exc = NoExc THEN r.res ELSE SweepHandle(r.exc), r.st, t, 1, 0, 0, 0, 0)
     : f \in F \cap {"none", "locked_stmt", "unexpected"}}

----------------------------------------------------------------------------
(* PollDataCache.get_stats *)

(* The dict get_stats returns; hit_rate, a float in the code, is kept as    *)
(* the fraction num / den it is computed from.                              *)
Stats(total, expired, hits, misses, den) ==
    <<"stats", [total_entries |-> total, valid_entries |-> total - expired,
                expired_entries |-> expired, cache_hits |-> hits,
                cache_misses |-> misses, hit_rate |-> [num |-> hits, den |-> den]]>>

(* `return {}` of the except clause *)
EmptyStats == <<"stats_failed">>

Max(a, b) == IF a >= b THEN a ELSE b

(* get_stats dividing the hits by the misses *)
get_stats_HitsPerMiss(st, pm, hits, misses, t, F) ==
    {LET e == StatementError(st, pm, f)
         st1 == IF pm = "none" THEN st ELSE ConnectCreates(st)
     IN  IF e # NoExc
         THEN Outcome(EmptyStats, st1, t, 1, 0, 0, 0, 0)
         ELSE Outcome(Stats(Cardinality(st1.rows),
                            Cardinality({r \in st1.rows : r.expires_at <= CurrentTimestamp(t)}),
                            hits, misses, Max(1, misses)),
                      st1, t, 1, 0, 0, 0, 0)
     : f \in F \cap {"none", "locked_stmt", "unexpected"}}

(* The row count, the count WHERE expires_at <= CURRENT_TIMESTAMP, the     *)
(* instance's counters and hits / max(1, hits + misses); {} on exception.  *)
get_stats(st, pm, hits, misses, t, F) ==
    {LET e == StatementError(st, pm, f)
         st1 == IF pm = "none" THEN st ELSE ConnectCreates(st)
     IN  IF e # NoExc
         THEN Outcome(EmptyStats, st1, t, 1, 0, 0, 0, 0)
         ELSE Outcome(Stats(Cardinality(st1.rows),
                            Cardinality({r \in st1.rows : r.expires_at <= CurrentTimestamp(t)}),
                            hits, misses, Max(1, hits + misses)),
                      st1, t, 1, 0, 0, 0, 0)
     : f \in F \cap {"none", "locked_stmt", "unexpected"}}

----------------------------------------------------------------------------
(* PollDataCache.get_cache_entries *)

(* CASE WHEN expires_at >= CURRENT_TIMESTAMP THEN 'valid' ELSE 'expired' END *)
EntryStatus_Inclusive(r, t) ==
    IF r.expires_at >= CurrentTimestamp(t) THEN "valid" ELSE "expired"

(* CASE WHEN expires_at > CURRENT_TIMESTAMP THEN 'valid' ELSE 'expired' END *)
EntryStatus(r, t) ==
    IF r.expires_at > CurrentTimestamp(t) THEN "valid" ELSE "expired"

(* dict(zip(columns, row)): the selected columns of one row and its status *)
Entry(r, t) ==
    [cache_key |-> r.cache_key, url |-> r.url, created_at |-> r.created_at,
     expires_at |-> r.expires_at, access_count |-> r.access_count,
     last_accessed |-> r.last_accessed, status |-> EntryStatus(r, t)]

(* ORDER BY created_at DESC: every order of the entries in which created_at *)
(* does not increase; rows created in the same second come in either order. *)
OrderByCreatedDesc(E) ==
    {s \in [1..Cardinality(E) -> E] :
        /\ \A e \in E : \E i \in 1..Cardinality(E) : s[i] = e
        /\ \A i, j \in 1..Cardinality(E) : i < j => s[i].created_at >= s[j].created_at}

Entries(s) == <<"entries", [list |-> s]>>

(* The SELECT over the whole table, without WHERE; [] on any exception.     *)
get_cache_entries(st, pm, t, F) ==
    UNION {LET e == StatementError(st, pm, f)
               st1 == IF pm = "none" THEN st ELSE ConnectCreates(st)
           IN  IF e # NoExc
               THEN {Outcome(Entries(<< >>), st1, t, 1, 0, 0, 0, 0)}
               ELSE {Outcome(Entries(s), st1, t, 1, 0, 0, 0, 0)
                     : s \in OrderByCreatedDesc({Entry(r, t) : r \in st1.rows})}
           : f \in F \cap {"none", "locked_stmt", "unexpected"}}

----------------------------------------------------------------------------
(* cached_get_latest_polls_from_html, the cache-aside wrapper *)

(* What get_latest_polls_from_html, the fetch collaborator, does: it        *)
(* returns a frame, possibly an empty one, or raises.                       *)
FetchError == Exc("Exception", "fetch failed")
FetchOutcomes == {Frame(DfDate), Frame(DfEmpty), Raised(FetchError)}

Wrapped(res, o, got, fetches, fetched, stored) ==
    [res |-> res, st |-> o.st, t |-> o.t, attempts |-> o.attempts, slept |-> o.slept,
     repairs |-> o.repairs, hit |-> o.hit, miss |-> o.miss,
     got |-> got, fetches |-> fetches, fetched |-> fetched, stored |-> stored]

(* The wrapper calling the collaborator whatever get returned *)
cached_get_latest_polls_from_html_AlwaysFetch(st, pm, url, params, ttl, t, F, fetch) ==
    UNION {
        IF fetch[1] = "raise"
        THEN {Wrapped(None, g, g.res, 1, fetch, None)}
        ELSE {Wrapped(fetch, [w EXCEPT !.hit = g.hit, !.miss = g.miss], g.res, 1, fetch, w.res)
              : w \in set(g.st, pm, url, fetch, params, ttl, t, F)}
        : g \in get(st, pm, url, params, t, F)}

(* cache.get; if it returned a frame, return it; else call the collaborator *)
(* inside `try`, cache.set what it returned and return that; on any         *)
(* exception log and return None.                                           *)
cached_get_latest_polls_from_html(st, pm, url, params, ttl, t, F, fetch) ==
    UNION {
        IF g.res # None
        THEN {Wrapped(g.res, g, g.res, 0, None, None)}
        ELSE IF fetch[1] = "raise"
        THEN {Wrapped(None, g, g.res, 1, fetch, None)}
        ELSE {Wrapped(fetch, [w EXCEPT !.hit = g.hit, !.miss = g.miss], g.res, 1, fetch, w.res)
              : w \in set(g.st, pm, url, fetch, params, ttl, t, F)}
        : g \in get(st, pm, url, params, t, F)}

----------------------------------------------------------------------------
(* polls.get_wiki_polls_table *)

(* The urls it is called with: one that starts with http:// and the ones    *)
(* its validation rejects (None, the empty string, no scheme, another       *)
(* scheme)                                                                  *)
HttpUrl == "http://test.com"
WikiUrls == {HttpUrl, NoneUrl, "", "not_a_url", "ftp://invalid.com"}

(* `not url or not isinstance(url, str)`, then the startswith test *)
InvalidWikiUrl(url) == Falsy(url) \/ url # HttpUrl

(* What one requests.get can come to: a page with a polls table; Timeout;   *)
(* ConnectionError; a response with status 429; with status 502, 503 or     *)
(* 504; with another error status; another RequestException; a page that is *)
(* too short; a page without a polls table.                                 *)
Responses == {"ok", "timeout", "connection_error", "429", "503", "404",
              "request_exception", "short", "no_table"}
ResponseSeqs == [1..MAX_RETRIES -> Responses]

WikiTable == <<"table">>
WikiError == Exc("Exception", "get_wiki_polls_table")

(* time.sleep(RETRY_DELAY) whatever the attempt *)
WikiBackoff_Flat(attempt) == RETRY_DELAY

(* wait_time = RETRY_DELAY * (attempt + 1), in seconds *)
WikiBackoff(attempt) == RETRY_DELAY * (attempt + 1)

WikiReturn(res, requests) == [retry |-> FALSE, res |-> res, wait |-> 0, requests |-> requests]
WikiRetry(wait) == [retry |-> TRUE, res |-> None, wait |-> wait, requests |-> 1]

(* One pass of the loop with its except clauses, attempt counted from 0 and *)
(* resp what requests.get comes to                                          *)
WikiTry(url, resp, attempt) ==
    IF InvalidWikiUrl(url) THEN WikiReturn(Raised(WikiError), 0)
    ELSE IF resp = "429"
    THEN IF attempt < MAX_RETRIES - 1
         THEN WikiRetry(WikiBackoff(attempt))
         ELSE WikiReturn(Raised(WikiError), 1)
    ELSE IF resp = "503"
    THEN IF attempt < MAX_RETRIES - 1
         THEN WikiRetry(RETRY_DELAY * (attempt + 1))
         ELSE WikiReturn(Raised(WikiError), 1)
    ELSE IF resp \in {"timeout", "connection_error", "request_exception"}
    THEN IF attempt < MAX_RETRIES - 1
         THEN WikiRetry(RETRY_DELAY)
         ELSE WikiReturn(Raised(WikiError), 1)
    ELSE IF resp = "ok" THEN WikiReturn(WikiTable, 1)
    ELSE WikiReturn(Raised(WikiError), 1)

(* `for attempt in range(MAX_RETRIES)` from pass `attempt` on, and the      *)
(* `raise` after the loop                                                   *)
RECURSIVE WikiLoop(_, _, _, _, _)
WikiLoop(url, rs, attempt, requests, waits) ==
    IF attempt >= MAX_RETRIES
    THEN [res |-> Raised(WikiError), attempts |-> attempt, requests |-> requests,
          waits |-> waits]
    ELSE LET r == WikiTry(url, rs[attempt + 1], attempt) IN
         IF r.retry
         THEN WikiLoop(url, rs, attempt + 1, requests + r.requests, Append(waits, r.wait))
         ELSE [res |-> r.res, attempts |-> attempt + 1, requests |-> requests + r.requests,
               waits |-> waits]

get_wiki_polls_table(url, rs) == WikiLoop(url, rs, 0, 0, << >>)

RECURSIVE SumSeq(_)
SumSeq(q) == IF q = << >> THEN 0 ELSE Head(q) + SumSeq(Tail(q))

----------------------------------------------------------------------------
(* The state machine *)

NoFaults == {"none"}

(* The (url, params) pairs the callers use *)
KeyArgs == {<<"A", NoneParams>>, <<"A", Given(DictNP)>>, <<"B", NoneParams>>}
ReadArgs == KeyArgs \cup {<<"A", Given(DictPN)>>}
KeyOf(ka) == _generate_cache_key(ka[1], DefaultParams(ka[2]))

(* A dict as the mapping it denotes, whatever its insertion order *)
DictAsMap(d) == {d[i] : i \in 1..Len(d)}
Id(url, params) == <<url, DictAsMap(DefaultParams(params))>>
Ids == {Id(ka[1], ka[2]) : ka \in ReadArgs}
ArgsOf(id) == CHOOSE ka \in ReadArgs : Id(ka[1], ka[2]) = id
KeyById == [id \in Ids |-> KeyOf(ArgsOf(id))]

Nothing == [some |-> FALSE, df |-> DfEmpty, t |-> 0, ttl |-> 0]
Stored(df, t, ttl) == [some |-> TRUE, df |-> df, t |-> t, ttl |-> ttl]

(* The caller forgets what it stored once no row is left for it *)
Forget(w, rs) ==
    [id \in Ids |-> IF \E r \in rs : r.cache_key = KeyById[id] THEN w[id] ELSE Nothing]

(* The access_count of the key's row, 0 when the key has no row *)
AccessCountOf(rs, key) ==
    IF \E r \in rs : r.cache_key = key
    THEN (CHOOSE r \in rs : r.cache_key = key).access_count
    ELSE 0

(* had: whether a row with the call's key was stored when the call began,   *)
(* ac: that row's access_count.  got, fetches, fetched, stored: what the    *)
(* cache-aside wrapper did, see FetchCached.                                *)
Call(op, url, params, o) ==
    [op |-> op, url |-> url, params |-> params, res |-> o.res,
     attempts |-> o.attempts, slept |-> o.slept, repairs |-> o.repairs,
     had |-> \E r \in rows : r.cache_key = _generate_cache_key(url, DefaultParams(params)),
     ac |-> AccessCountOf(rows, _generate_cache_key(url, DefaultParams(params))),
     got |-> None, fetches |-> 0, fetched |-> None, stored |-> None]

NoCall ==
    [op |-> "init", url |-> NoneUrl, params |-> NoneParams, res |-> None,
     attempts |-> 0, slept |-> 0, repairs |-> 0, had |-> FALSE, ac |-> 0,
     got |-> None, fetches |-> 0, fetched |-> None, stored |-> None]

(* Calls running concurrently, each on its own connection (set and get open *)
(* one per call): two calls of set and repeated calls of get on one key.    *)
(* pc: where the call is; attempt: the pass of set's retry loop; lock: the  *)
(* connection holding SQLite's write lock; pending: the table states the    *)
(* writer has still to commit; seen: the row get's SELECT returned; res:    *)
(* what each call returned; reads: calls of get started so far; stats: a    *)
(* call of get_stats, with the total it has counted; cache: the calls of    *)
(* get_cache.                                                               *)
Writers == {"w1", "w2"}
Readers == {"r"}
Procs == Writers \cup Readers
ConcArgs == <<"A", NoneParams>>
DataOf == [w \in Writers |-> IF w = "w1" THEN DfCon25 ELSE DfDate]
TtlOf == [w \in Writers |-> IF w = "w1" THEN Seconds(1) ELSE NoneTtl]

(* Threads of one process calling get_cache.  Objects are numbered in the   *)
(* order of their construction, 0 standing for None.                        *)
Threads == {"t1", "t2", "t3"}

(* The module as imported: _cache_instance = None.  instance: the global;   *)
(* made: PollDataCache objects constructed so far; pc, obj: where each      *)
(* thread is and the object it has constructed; returned: the objects that  *)
(* calls of get_cache have returned.                                        *)
NoInstance ==
    [instance |-> 0, made |-> 0, pc |-> [t \in Threads |-> "start"],
     obj |-> [t \in Threads |-> 0], returned |-> {}]

NoneRunning ==
    [pc |-> [p \in Procs |-> "start"], attempt |-> [w \in Writers |-> 0],
     lock |-> "none", pending |-> [w \in Writers |-> << >>],
     seen |-> {}, res |-> [p \in Procs |-> None], reads |-> 0,
     stats |-> [pc |-> "start", total |-> 0, res |-> None],
     cache |-> NoInstance]

Init ==
    /\ dbfile = "ok"
    /\ perm = "rw"
    /\ rows = {}
    /\ now = 0
    /\ cache_hits = 0
    /\ cache_misses = 0
    /\ nops = 0
    /\ last = NoCall
    /\ written = [id \in Ids |-> Nothing]
    /\ conc = NoneRunning

(* F is the set of faults the environment may inject into the call *)
Get(url, params, F) ==
    /\ nops < MaxOps
    /\ \E o \in get(Store(dbfile, rows), perm, url, params, now, F) :
        /\ dbfile' = o.st.file
        /\ rows' = o.st.rows
        /\ cache_hits' = cache_hits + o.hit
        /\ cache_misses' = cache_misses + o.miss
        /\ last' = Call("get", url, params, o)
        /\ written' = Forget(written, o.st.rows)
    /\ nops' = nops + 1
    /\ UNCHANGED <<perm, now, conc>>

Set(url, data, params, ttl, F) ==
    /\ nops < MaxOps
    /\ \E o \in set(Store(dbfile, rows), perm, url, data, params, ttl, now, F) :
        /\ dbfile' = o.st.file
        /\ rows' = o.st.rows
        /\ last' = Call("set", url, params, o)
        /\ written' = Forget(IF o.res = Bool(TRUE)
                             THEN [written EXCEPT ![Id(url, params)] =
                                      Stored(data[2], now, DefaultedTtl(ttl))]
                             ELSE written,
                             o.st.rows)
    /\ nops' = nops + 1
    /\ UNCHANGED <<perm, now, cache_hits, cache_misses, conc>>

Invalidate(url, params, F) ==
    /\ \E o \in invalidate(Store(dbfile, rows), perm, url, params, now, F) :
        /\ dbfile' = o.st.file
        /\ rows' = o.st.rows
        /\ last' = Call("invalidate", url, params, o)
        /\ written' = Forget(written, o.st.rows)
    /\ UNCHANGED <<perm, now, cache_hits, cache_misses, nops, conc>>

CleanupExpired(F) ==
    /\ \E o \in cleanup_expired(Store(dbfile, rows), perm, now, F) :
        /\ dbfile' = o.st.file
        /\ rows' = o.st.rows
        /\ last' = Call("cleanup_expired", NoneUrl, NoneParams, o)
        /\ written' = Forget(written, o.st.rows)
    /\ UNCHANGED <<perm, now, cache_hits, cache_misses, nops, conc>>

GetStats(F) ==
    /\ \E o \in get_stats(Store(dbfile, rows), perm, cache_hits, cache_misses, now, F) :
        /\ dbfile' = o.st.file
        /\ rows' = o.st.rows
        /\ last' = Call("get_stats", NoneUrl, NoneParams, o)
        /\ written' = Forget(written, o.st.rows)
    /\ UNCHANGED <<perm, now, cache_hits, cache_misses, nops, conc>>

GetCacheEntries(F) ==
    /\ \E o \in get_cache_entries(Store(dbfile, rows), perm, now, F) :
        /\ dbfile' = o.st.file
        /\ rows' = o.st.rows
        /\ last' = Call("get_cache_entries", NoneUrl, NoneParams, o)
        /\ written' = Forget(written, o.st.rows)
    /\ UNCHANGED <<perm, now, cache_hits, cache_misses, nops, conc>>

(* One call of the cache-aside wrapper, the collaborator's outcome chosen   *)
(* by the environment                                                       *)
FetchCached(url, params, ttl, F) ==
    /\ nops < MaxOps
    /\ \E fetch \in FetchOutcomes :
       \E o \in cached_get_latest_polls_from_html(Store(dbfile, rows), perm, url, params,
                                                  ttl, now, F, fetch) :
        /\ dbfile' = o.st.file
        /\ rows' = o.st.rows
        /\ cache_hits' = cache_hits + o.hit
        /\ cache_misses' = cache_misses + o.miss
        /\ last' = [Call("fetch_cached", url, params, o) EXCEPT
                        !.got = o.got, !.fetches = o.fetches,
                        !.fetched = o.fetched, !.stored = o.stored]
        /\ written' = Forget(IF o.stored = Bool(TRUE)
                             THEN [written EXCEPT ![Id(url, params)] =
                                      Stored(o.fetched[2], now, ttl[2])]
                             ELSE written,
                             o.st.rows)
    /\ nops' = nops + 1
    /\ UNCHANGED <<perm, now, conc>>

(* set writing the key's row in two transactions: first the new expiry on  *)
(* the old payload, then the whole new row                                  *)
SetWrites_TwoCommits(rs, row) ==
    << {IF r.cache_key = row.cache_key THEN [row EXCEPT !.data_json = r.data_json] ELSE r
        : r \in rs},
       InsertOrReplace(rs, row) >>

(* The table states set commits one after the other: one, that of its       *)
(* single INSERT OR REPLACE followed by conn.commit()                       *)
SetWrites(rs, row) == << InsertOrReplace(rs, row) >>

(* set, the INSERT OR REPLACE: it takes the write lock and stages the row.  *)
(* When another connection holds the lock the statement waits (no step) or  *)
(* times out with `database is locked`, handled by set's except clauses.    *)
WExecute(w) ==
    /\ conc.pc[w] = "start"
    /\ LET key == KeyOf(ConcArgs)
           row == NewRow(key, to_json(DataOf[w]), ConcArgs[1],
                         JsonDumpsSorted(DefaultParams(ConcArgs[2])),
                         ExpiresAtStr(now, DefaultedTtl(TtlOf[w])), now)
       IN  IF conc.lock = "none"
           THEN conc' = [conc EXCEPT !.lock = w, !.pc[w] = "commit",
                                     !.pending[w] = SetWrites(rows, row)]
           ELSE LET h == SetHandle(Locked, conc.attempt[w], Store(dbfile, rows)) IN
                IF h.retry
                THEN conc' = [conc EXCEPT !.attempt[w] = @ + 1]
                ELSE conc' = [conc EXCEPT !.pc[w] = "done", !.res[w] = h.res]
    /\ UNCHANGED <<dbfile, perm, rows, now, cache_hits, cache_misses, nops, last, written>>

(* set, conn.commit(): the staged table state replaces the committed one in *)
(* one step; after the last one the lock is released and set returns True.  *)
WCommit(w) ==
    /\ conc.pc[w] = "commit"
    /\ rows' = Head(conc.pending[w])
    /\ conc' = IF Len(conc.pending[w]) = 1
               THEN [conc EXCEPT !.pending[w] = << >>, !.lock = "none",
                                 !.pc[w] = "done", !.res[w] = Bool(TRUE)]
               ELSE [conc EXCEPT !.pending[w] = Tail(@)]
    /\ UNCHANGED <<dbfile, perm, now, cache_hits, cache_misses, nops, last, written>>

(* get, the SELECT: it reads the committed table.  No row: a miss. *)
RSelect(r) ==
    /\ conc.pc[r] = "start"
    /\ conc.reads < MaxOps
    /\ LET result == SelectLive(rows, KeyOf(ConcArgs), now) IN
       IF result = {}
       THEN /\ conc' = [conc EXCEPT !.pc[r] = "done", !.res[r] = None, !.seen = {},
                                    !.reads = @ + 1]
            /\ cache_misses' = cache_misses + 1
       ELSE /\ conc' = [conc EXCEPT !.pc[r] = "update", !.seen = result, !.reads = @ + 1]
            /\ UNCHANGED cache_misses
    /\ UNCHANGED <<dbfile, perm, rows, now, cache_hits, nops, last, written>>

(* get writing back the row it selected, with the new access count *)
RUpdate_WriteBack(r) ==
    /\ conc.pc[r] = "update"
    /\ LET row == CHOOSE x \in conc.seen : TRUE
       IN  /\ rows' = InsertOrReplace(rows, [row EXCEPT !.access_count = @ + 1,
                                                        !.last_accessed = CurrentTimestamp(now)])
           /\ conc' = [conc EXCEPT !.pc[r] = "done",
                                   !.res[r] = Frame(from_json(row.data_json))]
    /\ cache_hits' = cache_hits + 1
    /\ UNCHANGED <<dbfile, perm, now, cache_misses, nops, last, written>>

(* get, after the SELECT: the best-effort access update, which fails when a *)
(* writer holds the lock, then the decoding of the row that was selected.   *)
RUpdate(r) ==
    /\ conc.pc[r] = "update"
    /\ LET upd == UpdateAccess(rows, KeyOf(ConcArgs), now,
                               IF conc.lock = "none" THEN "none" ELSE "locked_update")
           row == CHOOSE x \in conc.seen : TRUE
       IN  /\ rows' = upd.rows
           /\ conc' = [conc EXCEPT !.pc[r] = "done",
                                   !.res[r] = Frame(from_json(row.data_json))]
    /\ cache_hits' = cache_hits + 1
    /\ UNCHANGED <<dbfile, perm, now, cache_misses, nops, last, written>>

(* The reader calls get again *)
RAgain(r) ==
    /\ conc.pc[r] = "done"
    /\ conc' = [conc EXCEPT !.pc[r] = "start"]
    /\ UNCHANGED <<dbfile, perm, rows, now, cache_hits, cache_misses, nops, last, written>>

(* get_stats, `SELECT COUNT(...) FROM poll_cache`: the connection is in     *)
(* autocommit mode for SELECT, so the statement reads the table as          *)
(* committed when it runs and holds no lock afterwards.                     *)
StatsCountTotal ==
    /\ conc.stats.pc = "start"
    /\ conc' = [conc EXCEPT !.stats = [pc |-> "counted", total |-> Cardinality(rows),
                                       res |-> None]]
    /\ UNCHANGED <<dbfile, perm, rows, now, cache_hits, cache_misses, nops, last, written>>

(* get_stats, the second SELECT, counting WHERE expires_at <=               *)
(* CURRENT_TIMESTAMP in the table as committed now, then                    *)
(* valid_entries = total_entries - expired_entries and the return.          *)
StatsCountExpired ==
    /\ conc.stats.pc = "counted"
    /\ conc' = [conc EXCEPT !.stats =
                   [pc |-> "done", total |-> conc.stats.total,
                    res |-> Stats(conc.stats.total,
                                  Cardinality({r \in rows : r.expires_at <= CurrentTimestamp(now)}),
                                  cache_hits, cache_misses,
                                  Max(1, cache_hits + cache_misses))]]
    /\ UNCHANGED <<dbfile, perm, rows, now, cache_hits, cache_misses, nops, last, written>>

(* get_stats is called again *)
StatsAgain ==
    /\ conc.stats.pc = "done"
    /\ conc' = [conc EXCEPT !.stats = [pc |-> "start", total |-> 0, res |-> None]]
    /\ UNCHANGED <<dbfile, perm, rows, now, cache_hits, cache_misses, nops, last, written>>

(* get_cache, `if _cache_instance is None:`: the thread reads the global *)
GcCheck(t) ==
    /\ conc.cache.pc[t] = "start"
    /\ conc' = [conc EXCEPT !.cache.pc[t] =
                   IF conc.cache.instance = 0 THEN "construct" ELSE "return"]
    /\ UNCHANGED <<dbfile, perm, rows, now, cache_hits, cache_misses, nops, last, written>>

(* get_cache, `PollDataCache()`: a new object, whose constructor opens the  *)
(* database file                                                            *)
GcConstruct(t) ==
    /\ conc.cache.pc[t] = "construct"
    /\ conc' = [conc EXCEPT !.cache.made = @ + 1, !.cache.obj[t] = conc.cache.made + 1,
                            !.cache.pc[t] = "assign"]
    /\ UNCHANGED <<dbfile, perm, rows, now, cache_hits, cache_misses, nops, last, written>>

(* get_cache, `_cache_instance = ...`: the object is stored in the global *)
GcAssign(t) ==
    /\ conc.cache.pc[t] = "assign"
    /\ conc' = [conc EXCEPT !.cache.instance = conc.cache.obj[t], !.cache.pc[t] = "return"]
    /\ UNCHANGED <<dbfile, perm, rows, now, cache_hits, cache_misses, nops, last, written>>

(* get_cache, `return _cache_instance`: the global is read again *)
GcReturn(t) ==
    /\ conc.cache.pc[t] = "return"
    /\ conc' = [conc EXCEPT !.cache.returned = @ \cup {conc.cache.instance},
                            !.cache.pc[t] = "done"]
    /\ UNCHANGED <<dbfile, perm, rows, now, cache_hits, cache_misses, nops, last, written>>

(* The thread calls get_cache again *)
GcAgain(t) ==
    /\ conc.cache.pc[t] = "done"
    /\ conc' = [conc EXCEPT !.cache.pc[t] = "start", !.cache.obj[t] = 0]
    /\ UNCHANGED <<dbfile, perm, rows, now, cache_hits, cache_misses, nops, last, written>>

(* A row written past the cache, as the tests do with their own INSERT   *)
(* INTO poll_cache: the key of (url, params), a data_json text of the       *)
(* writer's choosing, an expires_at in the future; created_at, access_count *)
(* and last_accessed take the column defaults.  A key that has a row        *)
(* violates the PRIMARY KEY and nothing is inserted.                        *)
InsertRaw(url, params, text) ==
    /\ dbfile = "ok"
    /\ perm = "rw"
    /\ ~\E r \in rows : r.cache_key = _generate_cache_key(url, DefaultParams(params))
    /\ rows' = rows \cup {NewRow(_generate_cache_key(url, DefaultParams(params)), text, url,
                                 JsonDumpsOrdered(DefaultParams(params)),
                                 ExpiresAtStr(now, DefaultTtl), now)}
    /\ UNCHANGED <<dbfile, perm, now, cache_hits, cache_misses, nops, last, written, conc>>

(* One call of get_wiki_polls_table, rs being what its requests come to.    *)
(* In last: fetches is the number of calls of requests.get, slept the sum   *)
(* of the sleeps in seconds, fetched the responses received.                *)
GetWikiPollsTable(url, rs) ==
    /\ LET o == get_wiki_polls_table(url, rs) IN
       last' = [NoCall EXCEPT !.op = "get_wiki_polls_table", !.url = url, !.res = o.res,
                              !.attempts = o.attempts, !.slept = SumSeq(o.waits),
                              !.fetches = o.requests,
                              !.fetched = <<"responses", SubSeq(rs, 1, o.requests)>>]
    /\ UNCHANGED <<dbfile, perm, rows, now, cache_hits, cache_misses, nops, written, conc>>

(* A new PollDataCache on the same db_path: __init__ runs _init_database    *)
(* and starts the counters at zero.  When _init_database raises there is    *)
(* no new instance and the caller goes on with the one it had.  repairs: 1  *)
(* when _init_database moved a corrupt file aside.                          *)
Construct ==
    /\ LET r == _init_database(Store(dbfile, rows), perm) IN
        /\ dbfile' = r.st.file
        /\ rows' = r.st.rows
        /\ cache_hits' = IF r.exc = NoExc THEN 0 ELSE cache_hits
        /\ cache_misses' = IF r.exc = NoExc THEN 0 ELSE cache_misses
        /\ last' = [NoCall EXCEPT !.op = "construct",
                                  !.res = IF r.exc = NoExc THEN None ELSE Raised(r.exc),
                                  !.repairs = IF r.moved THEN 1 ELSE 0]
        /\ written' = Forget(written, r.st.rows)
    /\ UNCHANGED <<perm, now, nops, conc>>

(* The clock advances *)
Tick ==
    /\ now < MaxNow
    /\ now' = now + 1
    /\ UNCHANGED <<dbfile, perm, rows, cache_hits, cache_misses, nops, last, written, conc>>

(* Something outside the cache overwrites the backing file *)
CorruptFile(kind) ==
    /\ dbfile = "ok"
    /\ dbfile' = kind
    /\ rows' = {}
    /\ written' = Forget(written, {})
    /\ UNCHANGED <<perm, now, cache_hits, cache_misses, nops, last, conc>>

(* os.chmod on the backing file *)
Chmod(pm) ==
    /\ perm # pm
    /\ perm' = pm
    /\ UNCHANGED <<dbfile, rows, now, cache_hits, cache_misses, nops, last, written, conc>>

(* Normal operation: no fault is injected and nothing else touches the file *)
Next ==
    \/ \E ka \in ReadArgs \cup {<<"", NoneParams>>} : Get(ka[1], ka[2], NoFaults)
    \/ \E df \in {DfCon25, DfDate}, ttl \in TtlArgs :
          Set("A", Frame(df), NoneParams, ttl, NoFaults)
    \/ Set("A", Frame(DfCon25), Given(DictNP), NoneTtl, NoFaults)
    \/ Set("B", Frame(DfIdx1), NoneParams, NoneTtl, NoFaults)
    \/ \E data \in {None, Frame(DfEmpty)} : Set("A", data, NoneParams, NoneTtl, NoFaults)
    \/ Set("", Frame(DfCon25), NoneParams, NoneTtl, NoFaults)
    \/ \E ka \in KeyArgs : Invalidate(ka[1], IF ka[2].is_none THEN Given(EmptyDict) ELSE ka[2], NoFaults)
    \/ CleanupExpired(NoFaults)
    \/ Construct
    \/ Tick

Spec == Init /\ [][Next]_vars

(* The sweeps: every way of calling invalidate, over entries of two urls *)
NextSweep ==
    \/ \E ka \in KeyArgs : Set(ka[1], Frame(DfCon25), ka[2], Seconds(1), NoFaults)
    \/ \E url \in SweepUrlArgs, params \in {NoneParams, Given(DictNP), Given(EmptyDict)} :
          Invalidate(url, params, NoFaults)
    \/ CleanupExpired(NoFaults)
    \/ Tick

SpecSweep == Init /\ [][NextSweep]_vars

(* Entries of every age: stored with a ttl of 0 or 1 second or the default, *)
(* read, counted by get_stats and swept while the clock advances            *)
ExpiryTtls == {Seconds(0), Seconds(1), NoneTtl}
ExpiryArgs == {<<"A", NoneParams>>, <<"A", Given(DictNP)>>}

NextExpiry ==
    \/ \E ka \in ExpiryArgs, ttl \in ExpiryTtls : Set(ka[1], Frame(DfCon25), ka[2], ttl, NoFaults)
    \/ \E ka \in ExpiryArgs : Get(ka[1], ka[2], NoFaults)
    \/ Invalidate("A", Given(EmptyDict), NoFaults)
    \/ Invalidate(NoneUrl, NoneParams, NoFaults)
    \/ CleanupExpired(NoFaults)
    \/ GetStats(NoFaults)
    \/ GetCacheEntries(NoFaults)
    \/ Tick

SpecExpiry == Init /\ [][NextExpiry]_vars

(* The wrapper over one page, with the database locked now and then, the   *)
(* entry also invalidated and the clock advancing                           *)
FetchArgs == <<"A", Given(DictNP)>>
FetchTtl == Seconds(1)
FetchFaults == {"none", "locked_connect"}

NextFetch ==
    \/ FetchCached(FetchArgs[1], FetchArgs[2], FetchTtl, FetchFaults)
    \/ Get(FetchArgs[1], FetchArgs[2], NoFaults)
    \/ Invalidate(FetchArgs[1], NoneParams, NoFaults)
    \/ Tick

SpecFetch == Init /\ [][NextFetch]_vars

(* Two writers and a reader on one key, interleaved statement by statement *)
NextConc ==
    \/ \E w \in Writers : WExecute(w)
    \/ \E w \in Writers : WCommit(w)
    \/ \E r \in Readers : RSelect(r)
    \/ \E r \in Readers : RUpdate(r)
    \/ \E r \in Readers : RAgain(r)

SpecConc == Init /\ [][NextConc]_vars

(* A reader and the writers on one key while other callers sweep the table: *)
(* invalidate and cleanup_expired are one DELETE and its commit, run        *)
(* between any two statements of the others; while a writer holds the lock  *)
(* the DELETE finds the database locked.                                    *)
SweepFaults == IF conc.lock = "none" THEN NoFaults ELSE {"locked_stmt"}

NextRace ==
    \/ \E w \in Writers : WExecute(w)
    \/ \E w \in Writers : WCommit(w)
    \/ \E r \in Readers : RSelect(r)
    \/ \E r \in Readers : RUpdate(r)
    \/ \E r \in Readers : RAgain(r)
    \/ Invalidate(ConcArgs[1], ConcArgs[2], SweepFaults)
    \/ CleanupExpired(SweepFaults)
    \/ Tick

SpecRace == Init /\ [][NextRace]_vars

(* get_stats statement by statement while other callers store, invalidate   *)
(* and clean up entries, each of their calls committing at once             *)
StatsTtls == {Seconds(1), NoneTtl}

NextStats ==
    \/ StatsCountTotal
    \/ StatsCountExpired
    \/ StatsAgain
    \/ \E ka \in ExpiryArgs, ttl \in StatsTtls : Set(ka[1], Frame(DfCon25), ka[2], ttl, NoFaults)
    \/ Invalidate(NoneUrl, NoneParams, NoFaults)
    \/ CleanupExpired(NoFaults)
    \/ Tick

SpecStats == Init /\ [][NextStats]_vars

(* Operation on one entry with lock contention, unexpected exceptions, a    *)
(* file overwritten or made inaccessible from outside                       *)
FaultArgs == <<"A", NoneParams>>

NextFaults ==
    \/ Get(FaultArgs[1], FaultArgs[2], Faults)
    \/ Set(FaultArgs[1], Frame(DfCon25), FaultArgs[2], NoneTtl, Faults)
    \/ \E params \in {NoneParams, Given(EmptyDict)} :
          Invalidate(FaultArgs[1], params, Faults)
    \/ CleanupExpired(Faults)
    \/ Construct
    \/ Tick
    \/ \E kind \in {"garbage", "malformed"} : CorruptFile(kind)
    \/ \E pm \in {"rw", "none"} : Chmod(pm)

SpecFaults == Init /\ [][NextFaults]_vars

(* Rows whose payload was not written by set: read, listed and replaced *)
DecodeArgs == {<<"A", NoneParams>>, <<"A", Given(DictNP)>>}
DecodeFaults == {"none", "locked_delete"}

NextDecode ==
    \/ \E ka \in DecodeArgs, text \in RawTexts : InsertRaw(ka[1], ka[2], text)
    \/ \E ka \in DecodeArgs : Set(ka[1], Frame(DfCon25), ka[2], NoneTtl, NoFaults)
    \/ \E ka \in DecodeArgs : Get(ka[1], ka[2], DecodeFaults)
    \/ GetCacheEntries(NoFaults)
    \/ Tick

SpecDecode == Init /\ [][NextDecode]_vars

(* The fetch on its own: any url, any sequence of responses *)
NextWiki == \E url \in WikiUrls, rs \in ResponseSeqs : GetWikiPollsTable(url, rs)

SpecWiki == Init /\ [][NextWiki]_vars

(* The threads of one process calling get_cache, interleaved statement by   *)
(* statement                                                                *)
NextGetCache ==
    \/ \E t \in Threads : GcCheck(t)
    \/ \E t \in Threads : GcConstruct(t)
    \/ \E t \in Threads : GcAssign(t)
    \/ \E t \in Threads : GcReturn(t)
    \/ \E t \in Threads : GcAgain(t)

SpecGetCache == Init /\ [][NextGetCache]_vars

(* Key derivation on its own: any url with any dict, call after call *)
DeriveKey(url, d) ==
    /\ last' = [NoCall EXCEPT !.op = "_generate_cache_key", !.url = url,
                              !.params = Given(d),
                              !.res = <<"key", _generate_cache_key(url, d)>>]
    /\ UNCHANGED <<dbfile, perm, rows, now, cache_hits, cache_misses, nops, written, conc>>

NextKey == \E url \in Urls, d \in AllDicts : DeriveKey(url, d)

SpecKey == Init /\ [][NextKey]_vars

----------------------------------------------------------------------------
(* Properties *)

(* A step made by the environment: the clock, chmod, the file overwritten *)
EnvStep ==
    \/ now' # now
    \/ perm' # perm
    \/ dbfile = "ok" /\ dbfile' \in {"garbage", "malformed"}

(* A step that is a call of the operation named by last' *)
CallStep(op) == ~EnvStep /\ last'.op = op

(* The one result of a call of get in the current state when no fault is    *)
(* injected                                                                 *)
Reads(url, params) ==
    {o.res : o \in get(Store(dbfile, rows), perm, url, params, now, NoFaults)}

(* What json.loads / pd.DataFrame make of the text that to_json wrote *)
Decoded(df) == from_json(to_json(df))

LastId == Id(last.url, last.params)

(* The mapping a params_json text denotes *)
ParamsOfJson(js) ==
    {<<js[6 * i - 3], js[6 * i]>> : i \in 1..((Len(js) - 1) \div 6)}

(* The rows stored for (url, params), recognised by their url and           *)
(* params_json columns                                                      *)
RowsFor(rs, url, params) ==
    {r \in rs : r.url = url /\ ParamsOfJson(r.params_json) = DictAsMap(DefaultParams(params))}

(* A row that get can still return at clock t *)
Live(r, t) == t < r.expires_at * TicksPerSec

----------------------------------------------------------------------------
(* C6.  Key determinism: two calls of _generate_cache_key with the same url *)
(* and with dicts that hold the same names and values, in whatever          *)
(* insertion order, return the same key; in particular a repeated call      *)
(* returns the same key.                                                    *)
C6_KeyDeterminism ==
    [][(/\ last.op = "_generate_cache_key"
        /\ last'.op = "_generate_cache_key"
        /\ last'.url = last.url
        /\ DictAsMap(last'.params.dict) = DictAsMap(last.params.dict))
       => last'.res = last.res]_vars

(* Two consecutive calls whose dicts list the same three entries in a       *)
(* different order have both been made.                                     *)
C6_Witness ==
    /\ last.op = "_generate_cache_key"
    /\ last.params.dict = << <<"q", "x">>, <<"n", "5">>, <<"p", "x">> >>
    /\ last.res = <<"key", _generate_cache_key(last.url,
                               << <<"p", "x">>, <<"q", "x">>, <<"n", "5">> >>)>>

----------------------------------------------------------------------------
(* C1.  Round trip: a get that returns a frame for a (url, params) under    *)
(* which the caller stored a frame, with no set or invalidate on that key   *)
(* in between, returns a frame structurally equal to the one stored: same   *)
(* columns, same index, same cells with the same dtypes.                    *)
C1_RoundTrip ==
    (/\ last.op = "get"
     /\ last.res # None
     /\ LastId \in Ids
     /\ written[LastId].some)
    => last.res = Frame(written[LastId].df)

----------------------------------------------------------------------------
(* C2.  Expiry: in every state, a get returns a frame only if the key has a *)
(* row and the clock is before that row's expires_at; once the ttl given to *)
(* set has elapsed since the set, get returns None although the row is      *)
(* still stored (nothing removes it when the clock advances).               *)
C2_Expiry ==
    \A ka \in ReadArgs :
        \A res \in Reads(ka[1], ka[2]) :
            /\ res # None =>
                   \E r \in RowsFor(rows, ka[1], ka[2]) : now < r.expires_at * TicksPerSec
            /\ LET w == written[Id(ka[1], ka[2])] IN
               (w.some /\ now >= w.t + w.ttl * TicksPerSec)
                   => res = None /\ RowsFor(rows, ka[1], ka[2]) # {}

(* A get made after the ttl had elapsed returned None, and the expired row  *)
(* is still in the table.                                                   *)
C2_Witness ==
    /\ last.op = "get"
    /\ last.res = None
    /\ LastId \in Ids
    /\ written[LastId].some
    /\ now >= written[LastId].t + written[LastId].ttl * TicksPerSec
    /\ RowsFor(rows, last.url, last.params) # {}

----------------------------------------------------------------------------
(* C5.  Persistence: constructing a new PollDataCache on a valid backing    *)
(* file leaves the table exactly as it was, and right after the             *)
(* construction get returns, for every (url, params) whose row has not      *)
(* expired, the frame decoded from what was stored for it.                  *)
C5_Persistence ==
    /\ [](last.op = "construct" =>
            \A id \in Ids :
                (written[id].some /\ \E r \in rows : r.cache_key = KeyById[id] /\ Live(r, now))
                => Reads(ArgsOf(id)[1], ArgsOf(id)[2]) = {Frame(Decoded(written[id].df))})
    /\ [][(CallStep("construct") /\ dbfile = "ok")
          => (rows' = rows /\ dbfile' = "ok" /\ written' = written)]_vars

(* A new instance was constructed over a file that holds a live entry       *)
(* written by the previous instance, which had counted a hit on it.         *)
C5_Witness ==
    /\ last.op = "construct"
    /\ cache_hits = 0
    /\ \E id \in Ids : \E r \in rows :
          /\ written[id].some
          /\ r.cache_key = KeyById[id]
          /\ r.access_count = 1
          /\ Live(r, now)

----------------------------------------------------------------------------
(* C7.  Isolation: entries stored under different (url, params) are         *)
(* independent.  Every stored, unexpired entry is returned by get as the    *)
(* frame decoded from what was stored under its own (url, params); and a    *)
(* get, a set or an exact-entry invalidate on one (url, params) leaves the  *)
(* rows of every other (url, params) exactly as they were.                  *)
OtherRows(rs, url, params) == rs \ RowsFor(rs, url, params)

C7_Isolation ==
    /\ [](\A id \in Ids :
            (written[id].some /\ \E r \in RowsFor(rows, ArgsOf(id)[1], ArgsOf(id)[2]) : Live(r, now))
            => Reads(ArgsOf(id)[1], ArgsOf(id)[2]) = {Frame(Decoded(written[id].df))})
    /\ [][((CallStep("get") \/ CallStep("set")
            \/ (CallStep("invalidate") /\ ~Falsy(last'.url) /\ ~last'.params.is_none))
           /\ ~Falsy(last'.url))
          => OtherRows(rows', last'.url, last'.params) = OtherRows(rows, last'.url, last'.params)]_vars

(* Two entries with different payloads are stored under the same url with   *)
(* different params, and a get on one of them has just returned its own.    *)
C7_Witness ==
    /\ last.op = "get"
    /\ last.res = Frame(Decoded(DfDate))
    /\ \E r1, r2 \in rows :
          /\ r1.url = last.url /\ r2.url = last.url
          /\ r1 \in RowsFor(rows, last.url, last.params)
          /\ r2 \notin RowsFor(rows, last.url, last.params)
          /\ r2.data_json = to_json(DfCon25)

----------------------------------------------------------------------------
(* C8.  Upsert uniqueness: the table never holds two rows with the same     *)
(* cache_key; a successful set on a key that has a row leaves the number of *)
(* rows unchanged, and afterwards the key's row holds the new payload and   *)
(* get returns the frame decoded from it.                                   *)
C8_Upsert ==
    /\ [](\A r1, r2 \in rows : r1.cache_key = r2.cache_key => r1 = r2)
    /\ [][(CallStep("set") /\ last'.res = Bool(TRUE) /\ last'.had)
          => /\ Cardinality(rows') = Cardinality(rows)
             /\ \A r \in RowsFor(rows', last'.url, last'.params) :
                    r.data_json = to_json(written'[Id(last'.url, last'.params)].df)
             /\ Cardinality(RowsFor(rows', last'.url, last'.params)) = 1]_vars
    /\ [](last.op = "set" /\ last.res = Bool(TRUE)
          => Reads(last.url, last.params) \subseteq {Frame(Decoded(written[LastId].df)), None})

(* A set has replaced the row of a key that already had one with a          *)
(* different payload.                                                       *)
C8_Witness ==
    /\ last.op = "set"
    /\ last.res = Bool(TRUE)
    /\ last.had
    /\ written[LastId].df = DfDate
    /\ Cardinality(rows) = 1
    /\ cache_hits = 1

----------------------------------------------------------------------------
(* C9.  Invalidate by source: invalidate(url) with a url and no params      *)
(* removes exactly the rows whose url column equals the argument, whatever  *)
(* their params and whether expired or not, leaves every other row as it    *)
(* was, and returns the number of rows removed.                             *)
C9_InvalidateBySource ==
    [][(CallStep("invalidate") /\ last'.url \in Urls /\ last'.params.is_none)
       => /\ rows' = {r \in rows : r.url # last'.url}
          /\ last'.res = Count(Cardinality({r \in rows : r.url = last'.url}))]_vars

(* invalidate("A") has removed the two entries of A, stored with different  *)
(* params, and the entry of B is still there.                               *)
C9_Witness ==
    /\ last.op = "invalidate"
    /\ last.url = "A"
    /\ last.params.is_none
    /\ last.res = Count(2)
    /\ \E r \in rows : r.url = "B"
    /\ \A r \in rows : r.url = "B"

----------------------------------------------------------------------------
(* C10 as stated.  Invalidate modes: a call of invalidate in which the url  *)
(* or params is given (not None) removes no row of a url other than the one *)
(* given; only the call with neither url nor params empties a table that    *)
(* holds rows of several urls.                                              *)
C10_OnlyBareCallEmpties ==
    [][(/\ CallStep("invalidate")
        /\ last'.url # ""
        /\ ~(last'.url = NoneUrl /\ last'.params.is_none))
       => \A r \in rows \ rows' : r.url = last'.url]_vars

(* C10, amended.  invalidate removes at most the single row of the derived  *)
(* key when a non-empty url and params are both given, exactly the rows of  *)
(* the url when only a non-empty url is given, and every row whenever the   *)
(* url is None or empty, whether or not params is given; it returns the     *)
(* number of rows removed.                                                  *)
C10_InvalidateModes ==
    [][CallStep("invalidate")
       => LET url == last'.url
              params == last'.params
              gone == rows \ rows'
          IN  /\ rows' \subseteq rows
              /\ last'.res = Count(Cardinality(gone))
              /\ (~Falsy(url) /\ ~params.is_none)
                    => (gone = RowsFor(rows, url, params) /\ Cardinality(gone) <= 1)
              /\ (~Falsy(url) /\ params.is_none)
                    => gone = {r \in rows : r.url = url}
              /\ Falsy(url) => rows' = {}]_vars

(* invalidate(None, params) with params given has removed the three rows    *)
(* the table held, rows of two urls.                                        *)
C10_Witness ==
    /\ last.op = "invalidate"
    /\ last.url = NoneUrl
    /\ ~last.params.is_none
    /\ last.res = Count(3)
    /\ rows = {}

----------------------------------------------------------------------------
(* C3.  No infrastructure error escapes: whatever the state of the backing  *)
(* file and whatever fault the environment injects, get, set, invalidate    *)
(* and cleanup_expired return a value and never raise; when the file is not *)
(* a usable store, is inaccessible, or the fault persists on every attempt, *)
(* get returns None, set returns False, invalidate and cleanup_expired      *)
(* return 0.                                                                *)
Failing(f) ==
    \/ f \in {"locked_connect", "locked_schema", "locked_stmt", "unexpected"}
    \/ dbfile # "ok"
    \/ perm = "none"

C3_NoEscape ==
    /\ last.op \in {"get", "set", "invalidate", "cleanup_expired"} => last.res[1] # "raise"
    /\ \A f \in Faults :
        LET st == Store(dbfile, rows) IN
        /\ \A o \in get(st, perm, FaultArgs[1], FaultArgs[2], now, {f}) :
              /\ o.res[1] \in {"None", "df"}
              /\ Failing(f) => o.res = None
        /\ \A o \in set(st, perm, FaultArgs[1], Frame(DfCon25), FaultArgs[2], NoneTtl, now, {f}) :
              /\ o.res[1] = "bool"
              /\ Failing(f) => o.res = Bool(FALSE)
        /\ \A params \in {NoneParams, Given(EmptyDict)} :
              \A o \in invalidate(st, perm, FaultArgs[1], params, now, {f}) :
                  /\ o.res[1] = "int"
                  /\ Failing(f) => o.res = Count(0)
        /\ \A o \in cleanup_expired(st, perm, now, {f}) :
              /\ o.res[1] = "int"
              /\ Failing(f) => o.res = Count(0)

(* A get on a valid file that holds the entry found the database locked on  *)
(* each of its three attempts, slept between them, and returned None.       *)
C3_Witness ==
    /\ last.op = "get"
    /\ last.res = None
    /\ last.attempts = max_retries
    /\ last.slept = 3
    /\ dbfile = "ok"
    /\ perm = "rw"
    /\ \E r \in rows : r.cache_key = KeyOf(FaultArgs) /\ Live(r, now)

----------------------------------------------------------------------------
(* C4.  Corruption resilience: while the backing file holds bytes that are  *)
(* not a database, get returns None and set returns True or False, neither  *)
(* raises; a set that returns True is followed by a get that returns the    *)
(* entry; and once a repair has failed, leaving no usable file, get, set,   *)
(* invalidate and cleanup_expired return None, False, 0 and 0.              *)
C4_CorruptionResilience ==
    /\ [](\A f \in Faults :
            LET st == Store(dbfile, rows) IN
            /\ dbfile = "garbage" =>
                /\ \A o \in get(st, perm, FaultArgs[1], FaultArgs[2], now, {f}) : o.res = None
                /\ \A o \in set(st, perm, FaultArgs[1], Frame(DfCon25), FaultArgs[2], NoneTtl, now, {f}) :
                       o.res \in {Bool(TRUE), Bool(FALSE)}
            /\ dbfile \in {"missing", "notable"} =>
                /\ \A o \in get(st, perm, FaultArgs[1], FaultArgs[2], now, {f}) : o.res = None
                /\ \A o \in set(st, perm, FaultArgs[1], Frame(DfCon25), FaultArgs[2], NoneTtl, now, {f}) :
                       o.res = Bool(FALSE)
                /\ \A o \in invalidate(st, perm, FaultArgs[1], NoneParams, now, {f}) : o.res = Count(0)
                /\ \A o \in cleanup_expired(st, perm, now, {f}) : o.res = Count(0))
    /\ [](last.op \in {"get", "set"} => last.res[1] # "raise")
    /\ [][(CallStep("set") /\ last'.res = Bool(TRUE))
          => \A o \in get(Store(dbfile', rows'), perm', last'.url, last'.params, now', NoFaults) :
                 o.res = Frame(Decoded(DfCon25))]_vars
    /\ [][(CallStep("get") \/ CallStep("set")) /\ last'.repairs > 0
          => dbfile' \in {"missing", "notable"}]_vars

(* A set on the instance whose file was overwritten with garbage has        *)
(* returned False after one attempt, the file being left as it was.         *)
C4_Witness ==
    /\ last.op = "set"
    /\ last.res = Bool(FALSE)
    /\ last.attempts = 1
    /\ dbfile = "garbage"
    /\ perm = "rw"

----------------------------------------------------------------------------
(* C11.  Cleanup correctness: cleanup_expired removes exactly the rows      *)
(* whose expires_at is not after the clock, returns their number, and       *)
(* leaves every other row in the table, where get returns its payload.      *)
C11_Cleanup ==
    [][CallStep("cleanup_expired")
       => LET K == {r \in rows : ~Live(r, now)} IN
          /\ rows' = rows \ K
          /\ last'.res = Count(Cardinality(K))
          /\ \A ka \in ReadArgs :
                \A r \in RowsFor(rows \ K, ka[1], ka[2]) :
                    \A o \in get(Store(dbfile', rows'), perm', ka[1], ka[2], now', NoFaults) :
                        o.res = Frame(from_json(r.data_json))]_vars

(* cleanup_expired has removed one expired entry of the two stored and      *)
(* returned 1; the other entry is still there.                              *)
C11_Witness ==
    /\ last.op = "cleanup_expired"
    /\ last.res = Count(1)
    /\ Cardinality(rows) = 1
    /\ \A r \in rows : Live(r, now)

----------------------------------------------------------------------------
(* C13.  Stats consistency: in every state get_stats reports hit_rate equal *)
(* to hits / (hits + misses), 0 when no get was counted; valid_entries +    *)
(* expired_entries = total_entries; total_entries is the number of rows and *)
(* expired_entries the number of rows whose expires_at is not after the     *)
(* clock.                                                                   *)
C13_Stats ==
    \A o \in get_stats(Store(dbfile, rows), perm, cache_hits, cache_misses, now, NoFaults) :
        /\ o.res[1] = "stats"
        /\ LET st == o.res[2]
               n == cache_hits + cache_misses
           IN  /\ st.valid_entries + st.expired_entries = st.total_entries
               /\ st.total_entries = Cardinality(rows)
               /\ st.expired_entries = Cardinality({r \in rows : ~Live(r, now)})
               /\ st.cache_hits = cache_hits /\ st.cache_misses = cache_misses
               /\ n = 0 => st.hit_rate.num = 0
               /\ n > 0 => st.hit_rate.num * n = cache_hits * st.hit_rate.den

(* After one hit and one miss, with the one stored entry expired, get_stats *)
(* has reported 1 entry, 0 valid, 1 expired and a hit rate of 1/2.          *)
C13_Witness ==
    /\ last.op = "get_stats"
    /\ last.res = Stats(1, 1, 1, 1, 2)
    /\ cache_hits = 1 /\ cache_misses = 1

----------------------------------------------------------------------------
(* C16.  Expiry invariant: every row stored has expires_at > created_at;    *)
(* a set with ttl <= 0 creates no row.                                      *)
C16_ExpiresAfterCreated ==
    \A r \in rows : r.expires_at > r.created_at

----------------------------------------------------------------------------
(* C20.  Reads do not sweep: a get for a key whose row has expired returns  *)
(* None and leaves the table as it was; get_stats counts the row as         *)
(* expired; and an expired row leaves the table only in a call of           *)
(* cleanup_expired, of invalidate, or of set on its key.                    *)
C20_ReadsDoNotSweep ==
    /\ [][(/\ CallStep("get")
           /\ ~Falsy(last'.url)
           /\ RowsFor(rows, last'.url, last'.params) # {}
           /\ \A r \in RowsFor(rows, last'.url, last'.params) : ~Live(r, now))
          => (last'.res = None /\ rows' = rows)]_vars
    /\ [](\A o \in get_stats(Store(dbfile, rows), perm, cache_hits, cache_misses, now, NoFaults) :
            \A r \in rows : ~Live(r, now) => o.res[2].expired_entries >= 1)
    /\ [][\A r \in rows :
            (~Live(r, now) /\ r \notin rows')
            => \/ CallStep("cleanup_expired")
               \/ CallStep("invalidate")
               \/ (CallStep("set") /\ r \in RowsFor(rows, last'.url, last'.params))]_vars

(* A get on an expired entry has returned None and been counted as a miss;  *)
(* the entry, never read before, is still in the table.                     *)
C20_Witness ==
    /\ last.op = "get"
    /\ last.res = None
    /\ last.had
    /\ cache_misses = 1
    /\ \E r \in RowsFor(rows, last.url, last.params) :
          ~Live(r, now) /\ r.access_count = 0 /\ r.expires_at > r.created_at

----------------------------------------------------------------------------
(* C17.  Cache-aside flow: a call of the wrapper whose get returned a frame *)
(* returns that frame, the entry's payload, without calling the fetch       *)
(* collaborator or set; a call whose get returned None calls the            *)
(* collaborator exactly once and, when it returned a frame, calls set with  *)
(* the given ttl and returns the fetched frame whether set returned True or *)
(* False.                                                                   *)
C17_CacheAside ==
    [][CallStep("fetch_cached")
       => LET c == last' IN
          /\ c.got \in {o.res : o \in get(Store(dbfile, rows), perm, c.url, c.params, now, FetchFaults)}
          /\ c.got # None =>
                /\ c.got \in Reads(c.url, c.params)
                /\ c.res = c.got
                /\ c.fetches = 0 /\ c.fetched = None /\ c.stored = None
                /\ \A r \in rows' : \E r0 \in rows : r.data_json = r0.data_json
          /\ c.got = None =>
                /\ c.fetches = 1
                /\ c.fetched \in FetchOutcomes
                /\ c.fetched[1] = "df" =>
                      /\ c.res = c.fetched
                      /\ c.stored \in {Bool(TRUE), Bool(FALSE)}
                      /\ c.stored = Bool(TRUE) =>
                            \E r \in RowsFor(rows', c.url, c.params) :
                                /\ r.data_json = to_json(c.fetched[2])
                                /\ r.expires_at = ExpiresAtStr(now, FetchTtl[2])
                      /\ c.stored = Bool(FALSE) => rows' = rows]_vars

(* The wrapper found nothing cached, fetched a frame, could not store it    *)
(* because the database was locked on all three attempts of set, and        *)
(* returned the fetched frame.                                              *)
C17_Witness ==
    /\ last.op = "fetch_cached"
    /\ last.got = None
    /\ last.fetches = 1
    /\ last.res = Frame(DfDate)
    /\ last.stored = Bool(FALSE)
    /\ rows = {}

----------------------------------------------------------------------------
(* C18.  Fetch failure propagation: when the fetch collaborator raises, the *)
(* wrapper raises that same exception to its caller, and nothing is stored. *)
C18_FetchErrorPropagates ==
    (last.op = "fetch_cached" /\ last.fetched[1] = "raise")
    => (last.res = last.fetched /\ last.stored = None)

----------------------------------------------------------------------------
(* C12.  Hit/miss accounting: a call of get that returns a frame adds one   *)
(* to cache_hits and nothing to cache_misses, and a call of get that        *)
(* returns None adds one to cache_misses and nothing to cache_hits, so that *)
(* the two counters add up to the number of calls of get on the instance.   *)
C12_HitMissAccounting ==
    [][CallStep("get")
       => IF last'.res # None
          THEN cache_hits' = cache_hits + 1 /\ cache_misses' = cache_misses
          ELSE cache_misses' = cache_misses + 1 /\ cache_hits' = cache_hits]_vars

----------------------------------------------------------------------------
(* C14.  Best-effort touch: when the key has a live row on a usable file    *)
(* and the update of access_count / last_accessed fails, get still returns  *)
(* the row's payload at its first attempt and counts a hit, not a miss; the *)
(* rows stay as they were.                                                  *)
C14_BestEffortTouch ==
    (dbfile = "ok" /\ perm = "rw")
    => \A r \in RowsFor(rows, FaultArgs[1], FaultArgs[2]) :
          Live(r, now)
          => \A o \in get(Store(dbfile, rows), perm, FaultArgs[1], FaultArgs[2], now,
                          {"locked_update"}) :
                /\ o.res = Frame(from_json(r.data_json))
                /\ o.hit = 1 /\ o.miss = 0
                /\ o.attempts = 1
                /\ o.st = Store(dbfile, rows)

(* A get has returned the payload and been counted as the instance's only   *)
(* hit while the row's access_count is still 0: the update failed.          *)
C14_Witness ==
    /\ last.op = "get"
    /\ last.res = Frame(Decoded(DfCon25))
    /\ last.attempts = 1
    /\ cache_hits = 1
    /\ \E r \in RowsFor(rows, last.url, last.params) : r.access_count = 0

----------------------------------------------------------------------------
----------------------------------------------------------------------------
(* C19.  Atomic upsert under concurrency: with two calls of set and calls   *)
(* of get running concurrently on one key, the row a get selects is always  *)
(* a row exactly as one of the sets wrote it, never a mixture; get returns  *)
(* None or the payload of one of the two sets; and once both sets have      *)
(* returned, the key has exactly one row, a row as one of them wrote it.    *)
WrittenBy(w, r) ==
    [r EXCEPT !.access_count = 0, !.last_accessed = r.created_at]
    = NewRow(KeyOf(ConcArgs), to_json(DataOf[w]), ConcArgs[1],
             JsonDumpsSorted(DefaultParams(ConcArgs[2])),
             ExpiresAtStr(now, DefaultedTtl(TtlOf[w])), now)

C19_AtomicUpsert ==
    /\ \A r \in conc.seen : \E w \in Writers : WrittenBy(w, r)
    /\ \A rd \in Readers :
          conc.res[rd] \in {None} \cup {Frame(Decoded(DataOf[w])) : w \in Writers}
    /\ (\A w \in Writers : conc.pc[w] = "done")
       => /\ Cardinality(RowsFor(rows, ConcArgs[1], ConcArgs[2])) = 1
          /\ \A r \in rows : \E w \in Writers : WrittenBy(w, r) /\ conc.res[w] = Bool(TRUE)

(* Both sets have returned True; a get that selected the first set's row    *)
(* before the second set committed has returned the first payload, whole,   *)
(* while the table holds the second set's row.                              *)
C19_Witness ==
    /\ \A w \in Writers : conc.pc[w] = "done" /\ conc.res[w] = Bool(TRUE)
    /\ conc.pc["r"] = "done"
    /\ conc.res["r"] = Frame(Decoded(DfCon25))
    /\ \E r \in rows : r.data_json = to_json(DfDate)

----------------------------------------------------------------------------
(* C21.  get_cache_entries is a read-only listing: a call on a usable store *)
(* returns exactly one record per stored row, expired rows included, each   *)
(* carrying the row's key, url, timestamps and access count and the status  *)
(* 'valid' when the clock is before the row's expires_at and 'expired'      *)
(* otherwise; the call changes no row and no counter.                       *)
C21_ListEntriesReadOnly ==
    [][CallStep("get_cache_entries") =>
          /\ rows' = rows
          /\ dbfile' = dbfile
          /\ cache_hits' = cache_hits
          /\ cache_misses' = cache_misses
          /\ (dbfile = "ok" /\ perm = "rw") =>
                LET s == last'.res[2].list IN
                /\ Len(s) = Cardinality(rows)
                /\ \A r \in rows :
                      \E i \in 1..Len(s) :
                          /\ s[i].cache_key = r.cache_key
                          /\ s[i].url = r.url
                          /\ s[i].created_at = r.created_at
                          /\ s[i].expires_at = r.expires_at
                          /\ s[i].access_count = r.access_count
                          /\ s[i].last_accessed = r.last_accessed
                          /\ s[i].status = IF Live(r, now) THEN "valid" ELSE "expired"]_vars

(* A listing of two entries was returned, one of them valid and one whose   *)
(* expires_at is the current second, listed as expired.                     *)
C21_Witness ==
    /\ last.op = "get_cache_entries"
    /\ Len(last.res[2].list) = 2
    /\ \E i, j \in 1..2 :
          /\ last.res[2].list[i].status = "valid"
          /\ last.res[2].list[j].status = "expired"
          /\ last.res[2].list[j].expires_at = CurrentTimestamp(now)

----------------------------------------------------------------------------
(* C22.  Undecodable entry recovery: whenever a key has a live row whose    *)
(* data_json cannot be decoded into a frame, a get on that key returns None *)
(* without raising and leaves the table without that row and with every     *)
(* other row as it was, so that get_cache_entries no longer lists the key.  *)
C22_UndecodableRemoved ==
    \A ka \in DecodeArgs :
        \A r \in rows :
            (/\ dbfile = "ok"
             /\ perm = "rw"
             /\ r.cache_key = KeyOf(ka)
             /\ Live(r, now)
             /\ json_loads(r.data_json) # "list")
            => \A o \in get(Store(dbfile, rows), perm, ka[1], ka[2], now, NoFaults) :
                   /\ o.res = None
                   /\ o.st.rows = rows \ {r}
                   /\ \A l \in get_cache_entries(o.st, perm, now, NoFaults) :
                          \A i \in 1..Len(l.res[2].list) :
                              l.res[2].list[i].cache_key # r.cache_key

----------------------------------------------------------------------------
(* C23.  Bounded retry on contention: on a usable store, wherever in the    *)
(* call the lock is met, (a) a get or set that finds the database locked on *)
(* every attempt makes exactly 3 attempts, waits 1 and then 2 retry delays  *)
(* between them and returns its failure value; (b) when the lock may clear, *)
(* a call that ends before its third attempt has the result and leaves the  *)
(* table that the same call has without contention, and the wait before     *)
(* attempt n + 1 is n retry delays.                                         *)
C23_BoundedRetry ==
    (dbfile = "ok" /\ perm = "rw") =>
        \A f \in LockFaults :
            LET st == Store(dbfile, rows)
                gets(F) == get(st, perm, FaultArgs[1], FaultArgs[2], now, F)
                sets(F) == set(st, perm, FaultArgs[1], Frame(DfCon25), FaultArgs[2],
                               NoneTtl, now, F)
                Linear(o) == o.slept = (o.attempts * (o.attempts - 1)) \div 2
            IN  /\ \A o \in gets({f}) :
                      o.attempts = 3 /\ o.slept = 1 + 2 /\ o.res = None
                /\ \A o \in sets({f}) :
                      o.attempts = 3 /\ o.slept = 1 + 2 /\ o.res = Bool(FALSE)
                /\ \A o \in gets({f, "none"}) :
                      /\ o.attempts <= 3
                      /\ Linear(o)
                      /\ o.attempts < 3 =>
                            \E g \in gets(NoFaults) : g.res = o.res /\ g.st = o.st
                /\ \A o \in sets({f, "none"}) :
                      /\ o.attempts <= 3
                      /\ Linear(o)
                      /\ o.attempts < 3 =>
                            \E g \in sets(NoFaults) : g.res = o.res /\ g.st = o.st

----------------------------------------------------------------------------
(* C24.  Repair once: no get or set runs _repair_database more than once;   *)
(* and a get or set on a malformed database file, with nothing else going   *)
(* wrong, runs it once and makes at most one more attempt after it, two     *)
(* attempts in all.                                                         *)
C24_RepairOnce ==
    /\ last.op \in {"get", "set"} => last.repairs <= 1
    /\ (dbfile = "malformed" /\ perm = "rw") =>
          \A o \in get(Store(dbfile, rows), perm, FaultArgs[1], FaultArgs[2], now, NoFaults)
                  \cup set(Store(dbfile, rows), perm, FaultArgs[1], Frame(DfCon25),
                           FaultArgs[2], NoneTtl, now, NoFaults) :
              o.repairs = 1 /\ o.attempts <= 2

----------------------------------------------------------------------------
(* C25.  No retry on other errors: a get or set in which an exception that  *)
(* is neither a lock nor a corruption is raised, or that runs on a file it  *)
(* is not permitted to open, makes one attempt, does not wait and returns   *)
(* its failure value.                                                       *)
C25_NoRetryOnOtherErrors ==
    LET st == Store(dbfile, rows)
        gets(F) == get(st, perm, FaultArgs[1], FaultArgs[2], now, F)
        sets(F) == set(st, perm, FaultArgs[1], Frame(DfCon25), FaultArgs[2], NoneTtl, now, F)
        Immediate(o, failure) == o.attempts = 1 /\ o.slept = 0 /\ o.res = failure
    IN  /\ dbfile = "ok" =>
              /\ \A o \in gets({"unexpected"}) : Immediate(o, None)
              /\ \A o \in sets({"unexpected"}) : Immediate(o, Bool(FALSE))
        /\ perm = "none" =>
              /\ \A o \in gets(NoFaults) : Immediate(o, None)
              /\ \A o \in sets(NoFaults) : Immediate(o, Bool(FALSE))

----------------------------------------------------------------------------
(* C26.  Repair post-state: _repair_database, run on a malformed database   *)
(* file that it is permitted to copy and remove, returns True and leaves at *)
(* db_path a database with the poll_cache table and no row.                 *)
C26_RepairPostState ==
    (dbfile = "malformed" /\ perm = "rw") =>
        /\ _repair_database(Store(dbfile, rows)).ok
        /\ _repair_database(Store(dbfile, rows)).st = Store("ok", {})

----------------------------------------------------------------------------
(* C27.  Schema self-healing: on a backing file that exists and has no      *)
(* poll_cache table, set returns True and leaves the table with the row it  *)
(* was given, and get returns None and leaves the table, empty.             *)
C27_SchemaSelfHealing ==
    (dbfile = "notable" /\ perm = "rw") =>
        /\ \A o \in set(Store(dbfile, rows), perm, FaultArgs[1], Frame(DfCon25),
                         FaultArgs[2], NoneTtl, now, NoFaults) :
              /\ o.res = Bool(TRUE)
              /\ o.st.file = "ok"
              /\ \E r \in o.st.rows :
                    r.cache_key = KeyOf(FaultArgs) /\ r.data_json = to_json(DfCon25)
        /\ \A o \in get(Store(dbfile, rows), perm, FaultArgs[1], FaultArgs[2], now, NoFaults) :
              o.res = None /\ o.st = Store("ok", {})

----------------------------------------------------------------------------
(* C28.  The sweeps are retried too: an invalidate or cleanup_expired on a  *)
(* usable store that finds the database locked makes a further attempt      *)
(* after waiting, and returns 0 for the lock only when it has made all 3.   *)
C28_SweepsRetried ==
    (dbfile = "ok" /\ perm = "rw") =>
        \A o \in invalidate(Store(dbfile, rows), perm, FaultArgs[1], FaultArgs[2], now,
                             {"locked_stmt"})
                \cup cleanup_expired(Store(dbfile, rows), perm, now, {"locked_stmt"}) :
            o.attempts = 3 /\ o.slept > 0

----------------------------------------------------------------------------
(* C29.  Initialisation on a corrupt file: constructing a PollDataCache on  *)
(* a db_path whose file is not a database does not raise; the file is moved *)
(* aside and db_path then holds a database with the table and no row, on    *)
(* which a set returns True and the get that follows returns the frame      *)
(* decoded from what was stored.                                            *)
C29_InitOnCorruptFile ==
    [][(CallStep("construct") /\ dbfile = "garbage" /\ perm = "rw") =>
          /\ last'.res = None
          /\ last'.repairs = 1
          /\ dbfile' = "ok"
          /\ rows' = {}
          /\ \A s \in set(Store(dbfile', rows'), perm, FaultArgs[1], Frame(DfCon25),
                           FaultArgs[2], NoneTtl, now, NoFaults) :
                /\ s.res = Bool(TRUE)
                /\ \A g \in get(s.st, perm, FaultArgs[1], FaultArgs[2], now, NoFaults) :
                      g.res = Frame(Decoded(DfCon25))]_vars

(* A new instance has been constructed over a file that was not a database: *)
(* the constructor returned, having moved the file aside, and the table is  *)
(* there, empty.                                                            *)
C29_Witness ==
    /\ last.op = "construct"
    /\ last.res = None
    /\ last.repairs = 1
    /\ dbfile = "ok"
    /\ rows = {}

----------------------------------------------------------------------------
(* C30.  Termination: whatever the state of the backing file and whatever   *)
(* is raised in each attempt (a lock at any statement, corruption, a failed *)
(* repair, an unexpected exception), every call of get and of set with      *)
(* valid arguments ends after 1, 2 or 3 attempts, having waited no more     *)
(* than 1 + 2 retry delays in all.                                          *)
C30_Termination ==
    /\ \A o \in get(Store(dbfile, rows), perm, FaultArgs[1], FaultArgs[2], now, Faults)
                \cup set(Store(dbfile, rows), perm, FaultArgs[1], Frame(DfCon25),
                         FaultArgs[2], NoneTtl, now, Faults) :
          /\ o.attempts \in 1..3
          /\ o.slept <= 1 + 2
    /\ last.op \in {"get", "set"} => (last.attempts \in 1..3 /\ last.slept <= 1 + 2)

(* A set has returned False after three attempts in which it met a          *)
(* malformed file, a repair that failed and then unexpected exceptions,     *)
(* having waited between them.                                              *)
C30_Witness ==
    /\ last.op = "set"
    /\ last.res = Bool(FALSE)
    /\ last.attempts = 3
    /\ last.repairs = 1
    /\ last.slept > 0

----------------------------------------------------------------------------
(* C31.  Expiry computation: an entry stored by set with a ttl, the default *)
(* one when none was given, is returned by get at every instant before the  *)
(* time of the set plus the ttl: the whole-second timestamps that set       *)
(* writes and that get compares never make it expire early.                 *)
C31_FullTtl ==
    (dbfile = "ok" /\ perm = "rw") =>
        \A ka \in ExpiryArgs :
            LET w == written[Id(ka[1], ka[2])] IN
            (w.some /\ now < w.t + w.ttl * TicksPerSec)
                => \A res \in Reads(ka[1], ka[2]) : res # None

----------------------------------------------------------------------------
(* C32.  A failed set leaves the store unchanged: on a usable store, a set  *)
(* that returns False, be it for an empty url, a missing or empty frame, or *)
(* a database locked on all three attempts, leaves the file and every row   *)
(* as they were, so that a get returns for the key what it returned before. *)
InvalidSets == {<<"", Frame(DfDate)>>, <<NoneUrl, Frame(DfDate)>>,
                <<FaultArgs[1], None>>, <<FaultArgs[1], Frame(DfEmpty)>>}

C32_FailedSetChangesNothing ==
    /\ []((dbfile = "ok" /\ perm = "rw") =>
            LET st == Store(dbfile, rows)
                before == {g.res : g \in get(st, perm, FaultArgs[1], FaultArgs[2], now, NoFaults)}
            IN  /\ \A f \in LockFaults :
                      \A o \in set(st, perm, FaultArgs[1], Frame(DfDate), FaultArgs[2],
                                    NoneTtl, now, {f}) :
                          /\ o.res = Bool(FALSE)
                          /\ o.st = st
                          /\ {g.res : g \in get(o.st, perm, FaultArgs[1], FaultArgs[2],
                                                 now, NoFaults)} = before
                /\ \A a \in InvalidSets :
                      \A o \in set(st, perm, a[1], a[2], FaultArgs[2], NoneTtl, now, Faults) :
                          o.res = Bool(FALSE) /\ o.st = st)
    /\ [][(CallStep("set") /\ last'.res = Bool(FALSE) /\ dbfile = "ok" /\ perm = "rw")
          => (rows' = rows /\ dbfile' = dbfile /\ written' = written)]_vars

(* A set on a key that has a live row, read once, has returned False after  *)
(* three attempts and two waits; the row is there with its access count.    *)
C32_Witness ==
    /\ last.op = "set"
    /\ last.res = Bool(FALSE)
    /\ last.attempts = 3
    /\ last.slept = 1 + 2
    /\ last.had
    /\ dbfile = "ok"
    /\ \E r \in rows :
          r.cache_key = KeyOf(FaultArgs) /\ Live(r, now) /\ r.access_count = 1

----------------------------------------------------------------------------
(* C33.  get never creates or resurrects an entry: when the row that get's  *)
(* SELECT returned has been removed by another caller's invalidate or       *)
(* cleanup_expired before get's access update runs, the update leaves the   *)
(* key without a row and get returns the payload it selected; and a key     *)
(* without a row gets one only by the commit of a set.                      *)
HasRow(rs) == \E x \in rs : x.cache_key = KeyOf(ConcArgs)

C33_NoResurrection ==
    /\ [][\A r \in Readers :
            (conc.pc[r] = "update" /\ conc'.pc[r] = "done" /\ ~HasRow(rows))
            => /\ ~HasRow(rows')
               /\ \E x \in conc.seen : conc'.res[r] = Frame(from_json(x.data_json))]_vars
    /\ [][(~HasRow(rows) /\ HasRow(rows'))
          => \E w \in Writers : conc.pc[w] = "commit" /\ conc'.pc[w] = "done"]_vars

(* The one set made has committed, the reader's first get selected its row, *)
(* an invalidate then removed the row, still untouched, and the get has     *)
(* returned the payload; the key has no row.                                *)
C33_Witness ==
    /\ conc.pc["r"] = "done"
    /\ conc.reads = 1
    /\ conc.res["r"] = Frame(Decoded(DfCon25))
    /\ conc.pc["w1"] = "done"
    /\ conc.pc["w2"] = "start"
    /\ last.op = "invalidate"
    /\ last.res = Count(1)
    /\ last.ac = 0
    /\ ~HasRow(rows)

----------------------------------------------------------------------------
(* C34.  Stats snapshot under concurrency: whatever other callers write     *)
(* while get_stats runs, the dict it returns has the counts of the table at *)
(* one instant, and so 0 <= expired_entries <= total_entries and            *)
(* valid_entries >= 0.                                                      *)
C34_StatsSnapshot ==
    conc.stats.pc = "done" =>
        LET d == conc.stats.res[2] IN
        /\ d.valid_entries >= 0
        /\ d.expired_entries >= 0
        /\ d.expired_entries <= d.total_entries

----------------------------------------------------------------------------
(* C35.  get and cleanup_expired partition the rows: at every instant each  *)
(* stored row is selected either by get's lookup of its key or by           *)
(* cleanup_expired's DELETE, never by both and never by neither; so a       *)
(* cleanup_expired leaves every row for which a get at the same instant     *)
(* returns a frame, and get returns None for every key whose row it removes.*)
C35_Partition ==
    /\ \A r \in rows :
          (r \in SelectLive(rows, r.cache_key, now)) # (r \in CleanupSelects(rows, now))
    /\ (dbfile = "ok" /\ perm = "rw") =>
          \A c \in cleanup_expired(Store(dbfile, rows), perm, now, NoFaults) :
              \A ka \in ExpiryArgs :
                  \A r \in RowsFor(rows, ka[1], ka[2]) :
                      IF r \in c.st.rows
                      THEN Reads(ka[1], ka[2]) = {Frame(from_json(r.data_json))}
                      ELSE Reads(ka[1], ka[2]) = {None}

(* A get has just returned an entry while the other stored entry has its    *)
(* expires_at in the current second: cleanup_expired would remove exactly   *)
(* that one.                                                                *)
C35_Witness ==
    /\ last.op = "get"
    /\ last.res = Frame(Decoded(DfCon25))
    /\ Cardinality(rows) = 2
    /\ \E r \in rows : r.expires_at = CurrentTimestamp(now)
    /\ \E c \in cleanup_expired(Store(dbfile, rows), perm, now, NoFaults) : c.res = Count(1)

----------------------------------------------------------------------------
(* C36.  Fetch retry bound: whatever the url and whatever its requests come *)
(* to, get_wiki_polls_table calls requests.get at most 3 times.  With an    *)
(* invalid url it raises without a request.  Otherwise it goes on to the    *)
(* next attempt after a timeout, a connection error, a 429 and a 502, 503   *)
(* or 504, each wait after a 429 longer than the one after the 429 before;  *)
(* it ends at the first attempt that meets something else, returning the    *)
(* table or raising; and it raises when the third attempt fails.            *)
Retried == {"timeout", "connection_error", "429", "503"}
RaisedAtOnce == {"404", "short", "no_table"}

C36_FetchRetryBound ==
    /\ \A url \in WikiUrls, rs \in ResponseSeqs :
          LET o == get_wiki_polls_table(url, rs) IN
          /\ o.requests <= 3
          /\ InvalidWikiUrl(url) =>
                o.res[1] = "raise" /\ o.requests = 0 /\ o.waits = << >>
          /\ ~InvalidWikiUrl(url) =>
                /\ o.requests = o.attempts
                /\ Len(o.waits) = o.attempts - 1
                /\ \A i \in 1..o.attempts :
                      /\ (rs[i] \in Retried /\ i < 3) => o.attempts > i
                      /\ rs[i] \in RaisedAtOnce => (o.attempts = i /\ o.res[1] = "raise")
                      /\ rs[i] = "ok" => (o.attempts = i /\ o.res = WikiTable)
                /\ (o.attempts = 3 /\ rs[3] # "ok") => o.res[1] = "raise"
                /\ \A i, j \in 1..Len(o.waits) :
                      (i < j /\ rs[i] = "429" /\ rs[j] = "429") => o.waits[i] < o.waits[j]
    /\ last.op = "get_wiki_polls_table" => last.fetches <= 3

(* A call has returned the table at its third request, after two 429        *)
(* responses and waits of 2 and 4 seconds.                                  *)
C36_Witness ==
    /\ last.op = "get_wiki_polls_table"
    /\ last.res = WikiTable
    /\ last.fetches = 3
    /\ last.fetched = <<"responses", <<"429", "429", "ok">> >>
    /\ last.slept = 2 + 4

----------------------------------------------------------------------------
(* C37.  Single shared instance: all calls of get_cache in one process,     *)
(* first calls made by different threads at the same time included, return  *)
(* the same PollDataCache object.                                           *)
C37_SingleInstance == Cardinality(conc.cache.returned) <= 1

====
